---- MODULE Spec2Model ----
(***************************************************************************)
(* A model of the BookPipeline story builder: the TurnProcessor that       *)
(* records a turn in the shared storyline ledger and in the ledgers of the *)
(* impacted participants (story_builder/turn_processor.py, storyline.py,   *)
(* the storyline handlers of app.py), the FieldWalker that fills a nested  *)
(* field tree through a dialog or through the autofill backend             *)
(* (story_builder/editor.py, dialogs.py, autofill.py, utils.py) and the    *)
(* StoryWriter's chunking of turn summaries (story_writer.py).             *)
(*                                                                         *)
(* Text is a sequence of one-character strings, so that trimming, joining  *)
(* and slicing are computed as the code computes them.  A Python dict that *)
(* is an INPUT is a sequence of <<key, value>> pairs (its iteration        *)
(* order); a dict the code builds and only looks keys up in is a function. *)
(***************************************************************************)
EXTENDS Integers, Sequences, FiniteSets, TLC

VARIABLES
    storyline,        \* Storyline.json: [title, summary, turns]
    chars,            \* Characters/<name>.json, one document per participant name
    call,             \* the process_turn call in progress, or the last one made
    issued,           \* the turn numbers given to appended entries, in call order
    storyline_turns,  \* StoryBuilderApp.storyline_turns, the caller's in-memory list
    walker,           \* one FieldWalker.walk: its inputs, the dialog's script, its outcome
    writer,           \* one StoryWriter._chunk_summaries: its inputs and its chunks
    story,            \* one StoryWriter.generate_story: its inputs, loop state and result
    gathered,         \* what the application gathered for the turn it commits
    auto,             \* one FieldWalker.auto_generate: its inputs, the backend's script, its outcome
    applied           \* one call of a helper on its own: the helper, its argument, what it gave

vars == <<storyline, chars, call, issued, storyline_turns, walker, writer, story,
          gathered, auto, applied>>

(***************************************************************************)
(* Bounds of the model.                                                    *)
(***************************************************************************)
MaxResponseLen == 4
MaxSplitSteps == 3
MaxTurns == 3
MaxListLen == 2
ScriptLen == 2
MaxSummaries == 2
MaxSummaryLen == 3
MaxBudget == 6
MaxStoryTurns == 2
MaxLimit == 2
MaxLedger == 2

(***************************************************************************)
(* Python values that reach the code as inputs, tagged with their type.    *)
(***************************************************************************)
PyNone == [kind |-> "none", v |-> <<>>]
PyStr(s) == [kind |-> "str", v |-> s]
PyList(items) == [kind |-> "list", v |-> items]
\* a dict, as its items() in iteration order: <<key, value>> pairs
PyMap(pairs) == [kind |-> "map", v |-> pairs]

\* an int, by its digits
PyInt(digits) == [kind |-> "int", v |-> digits]
\* a bool, by what str() gives for it
PyBool(b) == [kind |-> "bool", v |-> IF b THEN <<"T", "r", "u", "e">> ELSE <<"F", "a", "l", "s", "e">>]

\* bool(value): None, "", [], {}, 0 and False are falsy
Truthy(value) ==
    CASE value.kind = "int" -> value.v # <<"0">>
      [] value.kind = "bool" -> value = PyBool(TRUE)
      [] OTHER -> value.kind # "none" /\ value.v # <<>>

(***************************************************************************)
(* Text.                                                                   *)
(***************************************************************************)
Whitespace == {" ", "\n"}

RECURSIVE lstrip(_)
lstrip(s) ==
    IF s # <<>> /\ Head(s) \in Whitespace THEN lstrip(Tail(s)) ELSE s

RECURSIVE rstrip(_)
rstrip(s) ==
    IF s # <<>> /\ s[Len(s)] \in Whitespace
    THEN rstrip(SubSeq(s, 1, Len(s) - 1))
    ELSE s

\* str.strip()
strip(s) == rstrip(lstrip(s))

\* The code points of the characters the model's texts are made of.
CharRank(c) ==
    CASE c = "\n" -> 10
      [] c = " " -> 32
      [] c = "A" -> 65
      [] c = "B" -> 66
      [] c = "S" -> 83
      [] c = "T" -> 84
      [] OTHER -> 97

\* s < t for two Python strings.
RECURSIVE LexLess(_, _)
LexLess(s, t) ==
    IF t = <<>> THEN FALSE
    ELSE IF s = <<>> THEN TRUE
    ELSE IF Head(s) = Head(t) THEN LexLess(Tail(s), Tail(t))
    ELSE CharRank(Head(s)) < CharRank(Head(t))

\* sorted(a set of strings)
RECURSIVE sorted(_)
sorted(S) ==
    IF S = {} THEN <<>>
    ELSE LET least == CHOOSE x \in S : \A y \in S \ {x} : LexLess(x, y)
         IN  <<least>> \o sorted(S \ {least})

\* sep.join(parts)
RECURSIVE join(_, _)
join(sep, parts) ==
    IF parts = <<>> THEN <<>>
    ELSE IF Len(parts) = 1 THEN parts[1]
    ELSE parts[1] \o sep \o join(sep, Tail(parts))

BlankLine == <<"\n", "\n">>

\* repr(v) for strings, numbers, booleans, None, and lists and dicts of
\* them: "['a', 5]", "{'k': 'a'}"
RECURSIVE py_repr(_)
py_repr(v) ==
    IF v.kind = "str" THEN <<"'">> \o v.v \o <<"'">>
    ELSE IF v.kind = "list"
    THEN <<"[">> \o join(<<",", " ">>, [i \in 1..Len(v.v) |-> py_repr(v.v[i])]) \o <<"]">>
    ELSE IF v.kind = "map"
    THEN <<"{">>
         \o join(<<",", " ">>,
                 [i \in 1..Len(v.v) |->
                     <<"'">> \o v.v[i][1] \o <<"'", ":", " ">> \o py_repr(v.v[i][2])])
         \o <<"}">>
    ELSE IF v.kind \in {"int", "bool"} THEN v.v
    ELSE <<"N", "o", "n", "e">>

\* str(v), where the code has replaced None by "" beforehand
py_str(v) ==
    IF v.kind = "str" THEN v.v ELSE IF v.kind = "none" THEN <<>> ELSE py_repr(v)

\* turn_processor._clean_text: str(value).strip(), "" for None
clean_text(value) == IF value.kind = "none" THEN <<>> ELSE strip(py_str(value))

\* turn_processor._clean_sequence
clean_sequence(value) ==
    LET candidates ==
            IF value.kind = "str" THEN <<value>>
            ELSE IF value.kind = "list" THEN value.v
            ELSE IF value.kind = "map" THEN [i \in 1..Len(value.v) |-> PyStr(value.v[i][1])]
            ELSE <<>>
        cleaned == [i \in 1..Len(candidates) |-> clean_text(candidates[i])]
    IN  SelectSeq(cleaned, LAMBDA t : t # <<>>)

(***************************************************************************)
(* Dicts.                                                                  *)
(***************************************************************************)
\* set(mapping): the keys of an input mapping
Keys(m) == IF m.kind = "map" THEN {m.v[i][1] : i \in 1..Len(m.v)} ELSE {}

\* mapping.get(key): None when the key is absent
MapGet(m, key) ==
    IF key \in Keys(m)
    THEN LET i == CHOOSE j \in 1..Len(m.v) : m.v[j][1] = key IN m.v[i][2]
    ELSE PyNone

EmptyDict == [k \in {} |-> <<>>]

\* dict.get(key, "") on a dict of texts the code built
DictGet(d, key) == IF key \in DOMAIN d THEN d[key] ELSE <<>>

\* d[key] = value
DictSet(d, key, value) ==
    [k \in (DOMAIN d) \cup {key} |-> IF k = key THEN value ELSE d[k]]

(***************************************************************************)
(* StorylineManager (storyline.py).                                        *)
(***************************************************************************)
\* StorylineManager.DEFAULT_TEMPLATE, what ensure_initialized writes first
DEFAULT_TEMPLATE == [title |-> <<>>, summary |-> <<>>, turns |-> <<>>]

\* A ledger entry that is not an object: a bare string.
BareTurn(text) == [bare_string |-> text]

IsBareTurn(turn) == DOMAIN turn = {"bare_string"}

\* One entry as get_turns normalizes it: content a string, origin defaulted
\* (from author, else "user"); a bare string becomes a user entry.
get_turn(turn) ==
    IF IsBareTurn(turn) THEN [content |-> turn.bare_string, origin |-> "user"]
    ELSE
    [f \in (DOMAIN turn) \cup {"content", "origin"} |->
        IF f = "content" THEN (IF "content" \in DOMAIN turn THEN turn.content ELSE <<>>)
        ELSE IF f = "origin"
        THEN (IF "origin" \in DOMAIN turn /\ turn.origin # "" THEN turn.origin
              ELSE IF "origin" \notin DOMAIN turn /\ "author" \in DOMAIN turn
                      /\ turn.author # ""
              THEN turn.author
              ELSE "user")
        ELSE turn[f]]

\* StorylineManager.get_turns
get_turns(data) == [i \in 1..Len(data.turns) |-> get_turn(data.turns[i])]

\* One entry as update_turns normalizes it.
update_turn(turn) ==
    IF IsBareTurn(turn) THEN [content |-> turn.bare_string, origin |-> "user"]
    ELSE
    [f \in (DOMAIN turn) \cup {"content", "origin"} |->
        IF f = "content" THEN (IF "content" \in DOMAIN turn THEN turn.content ELSE <<>>)
        ELSE IF f = "origin"
        THEN (IF "origin" \in DOMAIN turn /\ turn.origin # "" THEN turn.origin ELSE "user")
        ELSE turn[f]]

\* StorylineManager.update_turns
update_turns(state, turns) ==
    [state EXCEPT !.turns = [i \in 1..Len(turns) |-> update_turn(turns[i])]]

(***************************************************************************)
(* TurnProcessor (turn_processor.py).                                      *)
(***************************************************************************)
RECURSIVE normalize_pairs_dropping_blank_values(_, _)
RECURSIVE normalize_pairs(_, _)
\* Mutant: an entry whose value is blank is dropped.
normalize_pairs_dropping_blank_values(pairs, normalized) ==
    IF pairs = <<>> THEN normalized
    ELSE IF strip(pairs[1][1]) = <<>> \/ clean_text(pairs[1][2]) = <<>>
    THEN normalize_pairs(Tail(pairs), normalized)
    ELSE normalize_pairs(Tail(pairs), DictSet(normalized, strip(pairs[1][1]), clean_text(pairs[1][2])))

\* TurnProcessor._normalize_mapping: the entries are folded in iteration
\* order, so of two keys that trim to the same name the later one wins.
normalize_pairs(pairs, normalized) ==
    IF pairs = <<>> THEN normalized
    ELSE LET cleaned_key == strip(pairs[1][1])
         IN  IF cleaned_key = <<>>
             THEN normalize_pairs(Tail(pairs), normalized)
             ELSE normalize_pairs(Tail(pairs),
                      DictSet(normalized, cleaned_key, clean_text(pairs[1][2])))

normalize_mapping(values) ==
    IF ~Truthy(values) THEN EmptyDict ELSE normalize_pairs(values.v, EmptyDict)

NoteKeys == <<"notes", "thoughts", "reflection">>
PlanKeys == <<"candidate_actions", "plans", "next_actions", "next_steps">>

\* _normalize_reflection, lines 216-220: the non-empty notes under the keys
RECURSIVE notes_sources(_, _)
notes_sources(payload, keys) ==
    IF keys = <<>> THEN <<>>
    ELSE (IF keys[1] \in Keys(payload) /\ clean_text(MapGet(payload, keys[1])) # <<>>
          THEN <<clean_text(MapGet(payload, keys[1]))>>
          ELSE <<>>) \o notes_sources(payload, Tail(keys))

\* _normalize_reflection, lines 222-225: the candidates under the keys
RECURSIVE candidates(_, _)
candidates(payload, keys) ==
    IF keys = <<>> THEN <<>>
    ELSE (IF keys[1] \in Keys(payload)
          THEN clean_sequence(MapGet(payload, keys[1]))
          ELSE <<>>) \o candidates(payload, Tail(keys))

\* TurnProcessor._normalize_reflection: <<notes, candidate actions>>
normalize_reflection(payload) ==
    IF payload.kind = "none" THEN <<<<>>, <<>>>>
    ELSE IF payload.kind = "map"
    THEN <<join(BlankLine, notes_sources(payload, NoteKeys)),
           candidates(payload, PlanKeys)>>
    ELSE IF payload.kind = "list" THEN <<<<>>, clean_sequence(payload)>>
    ELSE <<clean_text(payload), <<>>>>

\* A character document that is not on disk.
NoFile == [exists |-> FALSE, turns |-> <<>>, last_turn |-> 0]

\* TurnProcessor._load_player_state: a missing file reads as no turns and
\* last_turn = len(turns)
load_player_state(docs, player) ==
    IF docs[player].exists
    THEN [name |-> player, turns |-> docs[player].turns,
          last_turn |-> docs[player].last_turn]
    ELSE [name |-> player, turns |-> <<>>, last_turn |-> 0]

\* PlayerTurnRecord(...).to_dict()
\* the record with the summary as it was passed
PlayerTurnRecord_raw_summary(turn_number, action, outcome, gm_summary, reflection_payload) ==
    LET normalized == normalize_reflection(reflection_payload)
    IN  [turn |-> turn_number,
         action |-> action,
         outcome |-> outcome,
         global_summary |-> py_str(gm_summary),
         reflection |-> normalized[1],
         candidate_actions |-> normalized[2]]

PlayerTurnRecord(turn_number, action, outcome, gm_summary, reflection_payload) ==
    LET normalized == normalize_reflection(reflection_payload)
    IN  [turn |-> turn_number,
         action |-> action,
         outcome |-> outcome,
         global_summary |-> clean_text(gm_summary),
         reflection |-> normalized[1],
         candidate_actions |-> normalized[2]]

\* Mutant: last_turn counts the participant's own records.
append_player_turn_own_count(docs, player, turn_number, gm_summary, action, outcome, reflection_payload) ==
    LET state == load_player_state(docs, player)
        record == PlayerTurnRecord(turn_number, action, outcome, gm_summary,
                                   reflection_payload)
    IN  [exists |-> TRUE,
         turns |-> Append(state.turns, record),
         last_turn |-> Len(state.turns) + 1]

\* TurnProcessor._append_player_turn: the document it saves
append_player_turn(docs, player, turn_number, gm_summary, action, outcome, reflection_payload) ==
    LET state == load_player_state(docs, player)
        record == PlayerTurnRecord(turn_number, action, outcome, gm_summary,
                                   reflection_payload)
    IN  [exists |-> TRUE,
         turns |-> Append(state.turns, record),
         last_turn |-> turn_number]

\* Mutant: the turn is numbered from zero.
next_turn_number_zero_based(turns) == Len(turns)

\* process_turn, line 91
next_turn_number(turns) == Len(turns) + 1

\* Mutant: the entry carries the summary as it was given.
turn_entry_untrimmed(turn_number, gm_summary, normalized_actions, normalized_outcomes) ==
    [turn |-> turn_number,
     content |-> py_str(gm_summary),
     origin |-> "gm",
     player_actions |-> normalized_actions,
     per_player_outcomes |-> normalized_outcomes]

\* process_turn, lines 93-99
turn_entry(turn_number, gm_summary, normalized_actions, normalized_outcomes) ==
    [turn |-> turn_number,
     content |-> clean_text(gm_summary),
     origin |-> "gm",
     player_actions |-> normalized_actions,
     per_player_outcomes |-> normalized_outcomes]

\* Mutant: a participant with a reflection only is not impacted.
impacted_players_no_reflections(normalized_actions, normalized_outcomes, reflections) ==
    (DOMAIN normalized_actions) \cup (DOMAIN normalized_outcomes)

\* process_turn, line 105
impacted_players(normalized_actions, normalized_outcomes, reflections) ==
    (DOMAIN normalized_actions) \cup (DOMAIN normalized_outcomes) \cup Keys(reflections)

(***************************************************************************)
(* The summaries shown as context (utils.py).                              *)
(***************************************************************************)
\* str.upper() of one character
Upper(c) ==
    CASE c = "k" -> "K" [] c = "m" -> "M" [] c = "n" -> "N" [] c = "s" -> "S"
      [] c = "x" -> "X" [] c = "a" -> "A" [] c = "p" -> "P" [] c = "t" -> "T"
      [] OTHER -> c

\* str.split(): the words of a text
RECURSIVE words_from(_, _)
words_from(text, current) ==
    IF text = <<>> THEN (IF current = <<>> THEN <<>> ELSE <<current>>)
    ELSE IF Head(text) \in Whitespace
    THEN (IF current = <<>> THEN <<>> ELSE <<current>>) \o words_from(Tail(text), <<>>)
    ELSE words_from(Tail(text), Append(current, Head(text)))

\* format_field_label, lines 21-23: the first character in upper case
capitalise(cleaned) ==
    IF cleaned = <<>> THEN <<>> ELSE <<Upper(Head(cleaned))>> \o Tail(cleaned)

\* utils.format_field_label: "_", "[" and "]" become blanks, the words are
\* joined by one blank
format_field_label(name) ==
    capitalise(join(<<" ">>, words_from([i \in 1..Len(name) |-> IF name[i] \in {"_", "[", "]"} THEN " " ELSE name[i]], <<>>)))

\* the parts that are not empty
non_empty(parts) == SelectSeq(parts, LAMBDA part : part # <<>>)

\* summarize_value_for_prompt, lines 37-42: the "Label: summary" segments of
\* a mapping whose values have the summaries given
segments_of(pairs, summaries) ==
    [i \in 1..Len(pairs) |->
        IF summaries[i] = <<>> THEN <<>>
        ELSE format_field_label(pairs[i][1]) \o <<":", " ">> \o summaries[i]]

\* utils.summarize_value_for_prompt
RECURSIVE summarize_value_for_prompt(_)
summarize_value_for_prompt(value) ==
    IF value.kind = "none" THEN <<>>
    ELSE IF value.kind = "str" THEN strip(value.v)
    ELSE IF value.kind = "list"
    THEN join(<<",", " ">>, non_empty([i \in 1..Len(value.v) |-> summarize_value_for_prompt(value.v[i])]))
    ELSE IF value.kind = "map"
    THEN join(<<";", " ">>, non_empty(segments_of(value.v, [i \in 1..Len(value.v) |-> summarize_value_for_prompt(value.v[i][2])])))
    ELSE value.v

(***************************************************************************)
(* FieldWalker.walk (editor.py) and the dialog it asks (dialogs.py).       *)
(*                                                                         *)
(* A field tree is a tagged value: PyStr, PyList of trees, PyMap of        *)
(* <<key, tree>> pairs.  The walker's state ws threads what the recursion  *)
(* shares through self.dialog: the script of the user's answers, the       *)
(* number of ask_field calls made, the exit_early flag, and a log of the   *)
(* calls.  path is the breadcrumb of the node being visited; the code      *)
(* passes only the key, the path is kept for the log.  The prompt          *)
(* configuration reaches ask_field as an argument only and is left out.    *)
(***************************************************************************)
\* The step of a path into the list element at Python index idx.
IndexStep(idx) == <<"[", ToString(idx), "]">>

\* str.split(sep) for a one-character separator
RECURSIVE split_from(_, _, _)
split_from(text, sep, current) ==
    IF text = <<>> THEN <<current>>
    ELSE IF Head(text) = sep THEN <<current>> \o split_from(Tail(text), sep, <<>>)
    ELSE split_from(Tail(text), sep, Append(current, Head(text)))

split(text, sep) == split_from(text, sep, <<>>)

\* str.lower() of one character
Lower(c) ==
    CASE c = "S" -> "s" [] c = "T" -> "t" [] c = "M" -> "m" [] c = "K" -> "k"
      [] c = "P" -> "p" [] OTHER -> c

IMPORTANT_CONTEXT_KEYS ==
    { <<"s", "e", "t", "t", "i", "n", "g">>, <<"t", "h", "e", "m", "e", "s">>,
      <<"m", "a", "g", "i", "c", "_", "l", "e", "v", "e", "l">> }

\* _gather_global_context, visit(node): the children of node from position
\* i; a later find of a key replaces an earlier one
RECURSIVE visit_from(_, _, _)
visit_from(node, i, found) ==
    IF node.kind \notin {"map", "list"} \/ i > Len(node.v) THEN found
    ELSE IF node.kind = "list"
    THEN visit_from(node, i + 1, visit_from(node.v[i], 1, found))
    ELSE LET key_lower == [j \in 1..Len(node.v[i][1]) |-> Lower(node.v[i][1][j])]
             summary == summarize_value_for_prompt(node.v[i][2])
         IN  visit_from(node, i + 1,
                 visit_from(node.v[i][2], 1,
                     IF key_lower \in IMPORTANT_CONTEXT_KEYS /\ summary # <<>>
                     THEN DictSet(found, key_lower, summary) ELSE found))

\* FieldWalker._gather_global_context
gather_global_context(data) == visit_from(data, 1, EmptyDict)

\* _context_snapshot, lines 347-352: the summaries of the other keys
RECURSIVE siblings_from(_, _, _, _)
siblings_from(container, exclude_key, i, context) ==
    IF i > Len(container) THEN context
    ELSE LET summary == summarize_value_for_prompt(container[i][2])
         IN  siblings_from(container, exclude_key, i + 1,
                 IF container[i][1] # exclude_key /\ summary # <<>>
                 THEN DictSet(context, container[i][1], summary) ELSE context)

\* the global keys put over the siblings
with_defaults_overriding(context, exclude_key, global_context) ==
    [key \in (DOMAIN context) \cup ((DOMAIN global_context) \ {exclude_key}) |->
        IF key \in (DOMAIN global_context) \ {exclude_key} THEN global_context[key] ELSE context[key]]

\* _context_snapshot, lines 353-356: context.setdefault for the global keys
with_defaults(context, exclude_key, global_context) ==
    [key \in (DOMAIN context) \cup ((DOMAIN global_context) \ {exclude_key}) |->
        IF key \in DOMAIN context THEN context[key] ELSE global_context[key]]

\* FieldWalker._context_snapshot; container is the dict's items
context_snapshot(container, exclude_key, global_context) ==
    with_defaults(siblings_from(container, exclude_key, 1, EmptyDict), exclude_key, global_context)

\* _list_item_context, lines 366-369: the entry for the other items
with_others(key, base_context, existing) ==
    IF existing = <<>> THEN base_context
    ELSE DictSet(base_context, <<"Other ">> \o format_field_label(key) \o <<" entries">>,
                 join(<<",", " ">>, existing))

\* FieldWalker._list_item_context
list_item_context(key, base_context, value_list, idx) ==
    with_others(key, base_context,
        non_empty([i \in 1..Len(value_list) |->
                      IF i = idx + 1 THEN <<>> ELSE summarize_value_for_prompt(value_list[i])]))

\* DialogRunner.ask_field as the walker sees it: OK returns the entry's
\* text, Skip (or closing the window) returns the suggestion, Exit sets
\* exit_early and returns the suggestion.  The log keeps the context the
\* call was given and the items of the dict the walker was in.
ask_field(ws, path, suggestion, context, container) ==
    LET answer == ws.script[(ws.ncalls % Len(ws.script)) + 1]
        value == IF answer.button = "ok" THEN answer.text ELSE suggestion
    IN  [value |-> value,
         ws |-> [ws EXCEPT
                   !.ncalls = @ + 1,
                   !.exit_early = @ \/ answer.button = "exit",
                   !.log = Append(@, [path |-> path,
                                      suggestion |-> suggestion,
                                      value |-> value,
                                      context |-> context,
                                      container |-> container,
                                      after_exit |-> ws.exit_early])]]

\* FieldWalker._prompt_string
prompt_string(value, path, ws, container) ==
    IF strip(value) = <<>> \/ ws.full_edit
    THEN LET asked == ask_field(ws, path, value, context_snapshot(container, path[Len(path)], ws.global_context), container)
         IN  [v |-> PyStr(asked.value), ws |-> asked.ws]
    ELSE [v |-> PyStr(value), ws |-> ws]

\* _prompt_list, line 180: the reply split on commas, blanks dropped
parse_comma_list(user_input) ==
    LET parts == split(user_input, ",")
        stripped == [i \in 1..Len(parts) |-> strip(parts[i])]
        kept == SelectSeq(stripped, LAMBDA x : x # <<>>)
    IN  IF user_input = <<>> THEN <<>> ELSE [i \in 1..Len(kept) |-> PyStr(kept[i])]

RECURSIVE walk_dict_from(_, _, _, _)
RECURSIVE prompt_items(_, _, _, _, _, _, _)

\* _prompt_list, lines 170-221, with the context of line 169
prompt_list_in(value_list, path, ws, context, container) ==
    IF value_list = <<>> \/ ws.full_edit
    THEN LET asked == ask_field(ws, path, <<>>, context, container)
         IN  [v |-> PyList(parse_comma_list(asked.value)), ws |-> asked.ws]
    ELSE prompt_items(value_list, 1, <<>>, path, ws, context, container)

\* FieldWalker._prompt_list
prompt_list(value_list, path, ws, container) ==
    prompt_list_in(value_list, path, ws, context_snapshot(container, path[Len(path)], ws.global_context), container)

\* an element asked for with the context of its list
ask_item(ws, path, i, v, value_list, context, container) ==
    ask_field(ws, Append(path, IndexStep(i - 1)), py_str(v),
              list_item_context(path[Len(path)], context, value_list, i - 1), container)

\* FieldWalker._walk_dict: the dict is changed in place
walk_dict(data, path, ws) ==
    LET walked == walk_dict_from(data.v, 1, path, ws)
    IN  [v |-> PyMap(walked.v), ws |-> walked.ws]

\* _prompt_list, lines 184-223: the loop over the elements from position i
\* (idx = i - 1); it breaks when exit_early is set, and it returns from
\* inside the loop after an element that is neither a string nor a dict.
\* A dict among the elements is changed in place, so value_list holds it as
\* walked; the elements asked for go to new_list only.
prompt_items(value_list, i, new_list, path, ws, context, container) ==
    IF i > Len(value_list) \/ ws.exit_early
    THEN [v |-> PyList(new_list), ws |-> ws]
    ELSE LET v == value_list[i]
         IN  IF v.kind = "map"
             THEN LET walked == walk_dict(v, Append(path, IndexStep(i - 1)), ws)
                  IN  prompt_items([value_list EXCEPT ![i] = walked.v], i + 1,
                                   Append(new_list, walked.v), path, walked.ws,
                                   context, container)
             ELSE IF v.kind \in {"str", "none"} /\ strip(py_str(v)) # <<>>
             THEN prompt_items(value_list, i + 1, Append(new_list, v), path, ws,
                               context, container)
             ELSE LET asked == ask_item(ws, path, i, v, value_list, context, container)
                  IN  IF v.kind \in {"str", "none"}
                      THEN prompt_items(value_list, i + 1,
                               Append(new_list, PyStr(asked.value)), path, asked.ws,
                               context, container)
                      ELSE [v |-> PyList(Append(new_list, PyStr(asked.value))),
                            ws |-> asked.ws]

\* _walk_dict, lines 71-94: the loop over the items from position i
walk_dict_from(pairs, i, path, ws) ==
    IF i > Len(pairs) \/ ws.exit_early
    THEN [v |-> pairs, ws |-> ws]
    ELSE LET key == pairs[i][1]
             value == pairs[i][2]
             here == Append(path, key)
             filled ==
                 IF value.kind = "map" THEN walk_dict(value, here, ws)
                 ELSE IF value.kind = "list" THEN prompt_list(value.v, here, ws, pairs)
                 ELSE prompt_string(py_str(value), here, ws, pairs)
         IN  walk_dict_from([pairs EXCEPT ![i] = <<key, filled.v>>], i + 1, path,
                            filled.ws)

\* FieldWalker.walk
walk(data, script, full_edit) ==
    walk_dict(data, <<>>,
              [script |-> script, full_edit |-> full_edit, ncalls |-> 0,
               exit_early |-> FALSE, log |-> <<>>,
               global_context |-> gather_global_context(data)])

(***************************************************************************)
(* FieldWalker.auto_generate (editor.py), PromptSpec and the prompt         *)
(* summaries (utils.py), AutofillService (autofill.py).                    *)
(***************************************************************************)
\* from_config, line 72: config.get("prompt") or config.get("text") or ""
prompt_or_text(prompt, text) ==
    IF Truthy(prompt) THEN prompt ELSE IF Truthy(text) THEN text ELSE PyStr(<<>>)

\* from_config, lines 75-76: isinstance(raw_tokens, int) and raw_tokens > 0;
\* True is an int above 0
tokens_kept(raw_tokens) ==
    \/ raw_tokens.kind = "int" /\ Head(raw_tokens.v) \notin {"-", "0"}
    \/ raw_tokens = PyBool(TRUE)

\* from_config, lines 73-77, with the raw instruction chosen: str.strip of
\* a value that is no string raises AttributeError
from_raw(raw_instruction, raw_tokens) ==
    IF raw_instruction.kind # "str"
    THEN [raises |-> TRUE, instruction |-> <<>>, max_tokens |-> PyNone]
    ELSE [raises |-> FALSE, instruction |-> strip(raw_instruction.v),
          max_tokens |-> IF tokens_kept(raw_tokens) THEN raw_tokens ELSE PyNone]

\* PromptSpec.from_config: the instruction of a dict is its "instruction"
\* when that is a string, else its "prompt" or "text"
from_config(config) ==
    IF config.kind = "map"
    THEN from_raw(IF MapGet(config, <<"instruction">>).kind = "str"
                  THEN MapGet(config, <<"instruction">>)
                  ELSE prompt_or_text(MapGet(config, <<"prompt">>), MapGet(config, <<"text">>)),
                  MapGet(config, <<"max_tokens">>))
    ELSE IF config.kind = "str"
    THEN [raises |-> FALSE, instruction |-> strip(config.v), max_tokens |-> PyNone]
    ELSE [raises |-> FALSE, instruction |-> <<>>, max_tokens |-> PyNone]

\* FieldWalker._path_label
path_label(path) ==
    join(<<" ", ">", " ">>, [i \in 1..Len(path) |-> format_field_label(path[i])])

\* text or default
or_default(text, default) == IF text = <<>> THEN default ELSE text

\* FieldWalker._build_auto_prompt
build_auto_prompt(path, root, user_prompt, story_context, instruction) ==
    join(<<"\n">>,
         << <<"The user wants to generate a character with this as a baseline ">>
                \o or_default(strip(user_prompt), <<"No additional creative guidance was provided.">>)
                \o <<".">>,
            <<"Those are the informations that we have so far: ">>
                \o or_default(strip(summarize_value_for_prompt(root)), <<"No details have been established yet.">>)
                \o <<".">>,
            <<"The character will be placed in a story with those premisses: ">>
                \o or_default(strip(summarize_value_for_prompt(story_context)), <<"No world-building information is currently available.">>)
                \o <<".">>,
            <<"Right now we want to fill out the information for this category: ">>
                \o path_label(path) \o <<".">> >>
         \o (IF strip(instruction) # <<>> THEN <<strip(instruction)>> ELSE <<>>)
         \o << <<"Come up with content to fill out just this field for this character.">> >>)

\* AutofillService.generate, lines 32-34: the text generator raises, or its
\* output comes back stripped
generate(out) == [raises |-> out.raises, text |-> strip(out.text)]

\* _call_autofill, lines 273-279: what the call gave, "" when it raised; the
\* invocation is counted and logged
invoked(aws, prompt_text, spec, response) ==
    [value |-> response.text,
     failed |-> response.raises,
     aws |-> [aws EXCEPT !.ncalls = @ + 1,
                         !.calls = Append(@, [prompt |-> prompt_text,
                                              max_tokens |-> spec.max_tokens,
                                              raises |-> response.raises,
                                              text |-> response.text])]]

\* FieldWalker._call_autofill: generate(self, prompt_text) has no parameter
\* max_tokens (autofill.py line 26), so the call that passes it raises
\* TypeError before the backend runs; whatever generate raises is caught and
\* gives ""
call_autofill(aws, prompt_text, spec) ==
    IF spec.max_tokens # PyNone
    THEN [value |-> <<>>, failed |-> TRUE, aws |-> aws]
    ELSE invoked(aws, prompt_text, spec, generate(aws.script[(aws.ncalls % Len(aws.script)) + 1]))

\* The nesting at which json.loads gives up with RecursionError: the
\* interpreter's recursion limit, scaled to the texts of the model.
RecursionLimit == 2

\* what a scan gives: "ok" with the value and the text after it, "error" for
\* json.JSONDecodeError, "deep" for RecursionError
Scanned(status, value, rest) == [status |-> status, value |-> value, rest |-> rest]

\* json.decoder.py_scanstring, after the opening quote: a line break is an
\* invalid control character
RECURSIVE scan_string(_, _)
scan_string(text, content) ==
    IF text = <<>> \/ Head(text) = "\n" THEN Scanned("error", PyNone, <<>>)
    ELSE IF Head(text) = "\"" THEN Scanned("ok", PyStr(content), Tail(text))
    ELSE scan_string(Tail(text), Append(content, Head(text)))

\* json.scanner NUMBER_RE, for integers: an optional sign, then digits
RECURSIVE scan_digits(_, _)
scan_digits(text, digits) ==
    IF text # <<>> /\ Head(text) = "1" THEN scan_digits(Tail(text), Append(digits, "1"))
    ELSE Scanned(IF digits \in {<<>>, <<"-">>} THEN "error" ELSE "ok", PyInt(digits), text)

RECURSIVE scan_once(_, _)
RECURSIVE scan_array(_, _, _)

\* json.decoder.JSONArray: text follows "[" or "," and the blanks after it
scan_array(text, items, depth) ==
    IF items = <<>> /\ text # <<>> /\ Head(text) = "]"
    THEN Scanned("ok", PyList(<<>>), Tail(text))
    ELSE LET item == scan_once(text, depth)
             after == lstrip(item.rest)
         IN  IF item.status # "ok" THEN item
             ELSE IF after = <<>> \/ Head(after) \notin {"]", ","}
             THEN Scanned("error", PyNone, <<>>)
             ELSE IF Head(after) = "]"
             THEN Scanned("ok", PyList(Append(items, item.value)), Tail(after))
             ELSE scan_array(lstrip(Tail(after)), Append(items, item.value), depth)

\* json.scanner scan_once, for strings, arrays and integers
scan_once(text, depth) ==
    IF text = <<>> THEN Scanned("error", PyNone, <<>>)
    ELSE IF Head(text) = "\"" THEN scan_string(Tail(text), <<>>)
    ELSE IF Head(text) = "["
    THEN (IF depth >= RecursionLimit THEN Scanned("deep", PyNone, <<>>)
          ELSE scan_array(lstrip(Tail(text)), <<>>, depth + 1))
    ELSE IF Head(text) = "-" THEN scan_digits(Tail(text), <<"-">>)
    ELSE scan_digits(text, <<>>)

\* JSONDecoder.decode: text after the value is "Extra data"
whole_document(scanned) ==
    IF scanned.status = "ok" /\ lstrip(scanned.rest) # <<>>
    THEN Scanned("error", PyNone, <<>>) ELSE scanned

\* json.loads(response)
json_loads(response) == whole_document(scan_once(lstrip(response), 0))

\* str.lstrip of the bullet characters
RECURSIVE lstrip_bullets(_)
lstrip_bullets(s) ==
    IF s # <<>> /\ Head(s) \in {"-", "*"} THEN lstrip_bullets(Tail(s)) ELSE s

\* _parse_list_response, lines 326-332: the fragments of one line
clean_parts(raw) ==
    LET parts == split(raw, ",")
        cleaned == [i \in 1..Len(parts) |-> strip(lstrip_bullets(strip(parts[i])))]
    IN  SelectSeq(cleaned, LAMBDA part : part # <<>>)

RECURSIVE clean_lines(_)
clean_lines(lines) ==
    IF lines = <<>> THEN <<>> ELSE clean_parts(Head(lines)) \o clean_lines(Tail(lines))

\* _parse_list_response, lines 318-332, on the stripped response
parse_stripped(response, parsed) ==
    IF parsed.status = "ok" /\ parsed.value.kind = "list"
    THEN non_empty([i \in 1..Len(parsed.value.v) |-> strip(py_str(parsed.value.v[i]))])
    ELSE clean_lines(split([i \in 1..Len(response) |-> IF response[i] = "\r" THEN "\n" ELSE response[i]], "\n"))

\* FieldWalker._parse_list_response, when it returns
parse_list_response(response) ==
    IF response = <<>> THEN <<>> ELSE parse_stripped(strip(response), json_loads(strip(response)))

\* FieldWalker._parse_list_response, lines 319-324: only JSONDecodeError is
\* caught, a RecursionError leaves the method
parse_list_raises(response) ==
    response # <<>> /\ json_loads(strip(response)).status = "deep"

\* data[path[1]][path[2]]...
RECURSIVE GetAt(_, _)
GetAt(node, path) ==
    IF path = <<>> THEN node ELSE GetAt(MapGet(node, Head(path)), Tail(path))

\* data[path[1]][path[2]]... = value
RECURSIVE SetAt(_, _, _)
SetAt(node, path, value) ==
    IF path = <<>> THEN value
    ELSE PyMap([i \in 1..Len(node.v) |->
                   IF node.v[i][1] = Head(path)
                   THEN <<node.v[i][1], SetAt(node.v[i][2], Tail(path), value)>>
                   ELSE node.v[i]])

\* _auto_fill_string, line 240: (response or value or "").strip()
string_filled(called, value) ==
    [v |-> PyStr(strip(IF called.value # <<>> THEN called.value ELSE value)),
     failed |-> called.failed, aws |-> called.aws]

\* _auto_fill_list, lines 266-269: the parsed response
list_filled(called, parsed) ==
    [v |-> PyList([i \in 1..Len(parsed) |-> PyStr(parsed[i])]), failed |-> called.failed, aws |-> called.aws]

\* _auto_fill_list, line 266, on what _call_autofill gave
list_parsed(called) == list_filled(called, parse_list_response(called.value))

\* FieldWalker._auto_fill_string
auto_fill_string(path, value, prompt_config, root, aws) ==
    string_filled(call_autofill(aws, build_auto_prompt(path, root, aws.user_prompt, aws.story_context, from_config(prompt_config).instruction), from_config(prompt_config)), value)

\* FieldWalker._auto_fill_list
auto_fill_list(path, value_list, prompt_config, root, aws) ==
    list_parsed(call_autofill(aws, build_auto_prompt(path, root, aws.user_prompt, aws.story_context, from_config(prompt_config).instruction), from_config(prompt_config)))

\* prompt_data.get(key, {}) if isinstance(prompt_data, dict) else {}
sub_prompt_of(prompt_data, key) ==
    IF prompt_data.kind = "map" /\ key \in Keys(prompt_data)
    THEN MapGet(prompt_data, key)
    ELSE PyMap(<<>>)

\* sub_prompt if isinstance(sub_prompt, dict) else {}
dict_or_empty(sub_prompt) == IF sub_prompt.kind = "map" THEN sub_prompt ELSE PyMap(<<>>)

\* node[key] = filled: the assignment is made in the tree itself; the log
\* keeps the path, the value before, and the tree after
assign_leaf(root, current_path, value, filled) ==
    [v |-> SetAt(root, current_path, filled.v),
     aws |-> [filled.aws EXCEPT
                !.assigned = Append(@, [path |-> current_path,
                                        before |-> value,
                                        failed |-> filled.failed,
                                        root |-> SetAt(root, current_path, filled.v)])]]

RECURSIVE auto_fill_dict_from(_, _, _, _, _)
RECURSIVE auto_fill_item(_, _, _, _, _, _, _)
\* the next item of the loop, after one that left the tree and the state in step
auto_fill_dict_next(step, path, i, prompt_data) ==
    auto_fill_dict_from(step.v, path, i, prompt_data, step.aws)

\* FieldWalker._auto_fill_dict on the node at path: the loop over its items
\* from position i
auto_fill_dict_from(root, path, i, prompt_data, aws) ==
    IF i > Len(GetAt(root, path).v) THEN [v |-> root, aws |-> aws]
    ELSE auto_fill_item(root, path, i, prompt_data, aws, GetAt(root, path).v[i][1], GetAt(root, path).v[i][2])

\* _auto_fill_dict, lines 104-141: one key and its value
auto_fill_item(root, path, i, prompt_data, aws, key, value) ==
    IF value.kind = "map"
    THEN auto_fill_dict_next(auto_fill_dict_from(root, Append(path, key), 1, dict_or_empty(sub_prompt_of(prompt_data, key)), aws), path, i + 1, prompt_data)
    ELSE IF value.kind = "list"
    THEN auto_fill_dict_next(assign_leaf(root, Append(path, key), value, auto_fill_list(Append(path, key), value.v, sub_prompt_of(prompt_data, key), root, aws)), path, i + 1, prompt_data)
    ELSE auto_fill_dict_next(assign_leaf(root, Append(path, key), value, auto_fill_string(Append(path, key), py_str(value), sub_prompt_of(prompt_data, key), root, aws)), path, i + 1, prompt_data)

\* FieldWalker.auto_generate(data, prompt_data, user_prompt=, story_context=)
auto_generate(data, prompt_data, user_prompt, story_context, script) ==
    auto_fill_dict_from(data, <<>>, 1, dict_or_empty(prompt_data),
        [script |-> script, ncalls |-> 0, calls |-> <<>>, assigned |-> <<>>,
         user_prompt |-> user_prompt,
         story_context |-> IF Truthy(story_context) THEN story_context ELSE PyMap(<<>>)])

(***************************************************************************)
(* The inputs of walk.                                                     *)
(***************************************************************************)
LeafTexts == {<<>>, <<"x">>}

Leaves == {PyStr(t) : t \in LeafTexts}

\* a leaf, a list of at most one leaf, or an object with one field
InnerTrees ==
    Leaves \cup {PyList(<<>>)} \cup {PyList(<<a>>) : a \in Leaves}
           \cup {PyMap(<< <<<<"n">>, a>> >>) : a \in Leaves}

\* an inner tree or a list of inner trees
FieldTrees ==
    InnerTrees \cup
    {PyList(items) : items \in UNION {[1..n -> InnerTrees] : n \in 1..MaxListLen}}

\* the document walked: a field of any shape followed by a string field
Documents ==
    {PyMap(<< <<<<"k">>, a>>, <<<<"m">>, b>> >>) : a \in FieldTrees, b \in Leaves}

\* documents with the keys the pre-pass looks for: a setting at the top, an
\* object p with a setting (in either case) or another field and with a
\* field k that is a string or a list, and an empty field after it
ContextDocuments ==
    {PyMap(<< <<top, a>>, <<<<"p">>, PyMap(<< <<inner, b>>, <<<<"k">>, c>> >>)>>, <<<<"n">>, PyStr(<<>>)>> >>) :
        top \in {<<"s", "e", "t", "t", "i", "n", "g">>, <<"S", "e", "t", "t", "i", "n", "g">>},
        inner \in {<<"s", "e", "t", "t", "i", "n", "g">>, <<"S", "e", "t", "t", "i", "n", "g">>, <<"m">>},
        a \in {PyStr(<<>>), PyStr(<<"g">>)},
        b \in {PyStr(<<>>), PyStr(<<"x">>)},
        c \in {PyStr(<<>>), PyStr(<<"x">>), PyList(<<>>), PyList(<<PyStr(<<"a">>), PyStr(<<>>)>>)}}

\* what the user does in one dialog
Answers ==
    { [button |-> "ok", text |-> <<"y">>],
      [button |-> "ok", text |-> <<" ", "y">>],
      [button |-> "skip", text |-> <<>>],
      [button |-> "exit", text |-> <<>>] }

\* the user's answers in order, repeated when the walk asks more often
Scripts == [1..ScriptLen -> Answers]

NoWalk ==
    [pc |-> "idle",
     data |-> PyMap(<<>>),
     script |-> <<>>,
     full_edit |-> FALSE,
     result |-> PyMap(<<>>),
     exit_early |-> FALSE,
     log |-> <<>>]

(***************************************************************************)
(* StoryWriter chunking (story_writer.py).                                 *)
(***************************************************************************)
Min(a, b) == IF a <= b THEN a ELSE b

\* _split_large_entry, lines 154-157: the slices from offset start on, each
\* stripped
RECURSIVE split_parts(_, _, _)
split_parts(text, start, max_chunk_chars) ==
    IF start < Len(text)
    THEN LET end == Min(start + max_chunk_chars, Len(text))
         IN  <<strip(SubSeq(text, start + 1, end))>>
                 \o split_parts(text, end, max_chunk_chars)
    ELSE <<>>

\* StoryWriter._split_large_entry: the slices that are not empty
split_large_entry(text, max_chunk_chars) ==
    SelectSeq(split_parts(text, 0, max_chunk_chars), LAMBDA part : part # <<>>)

\* A Python slice index for a text of the length given: a negative index
\* counts from the end, and the index is clamped to the text.
py_index(i, length) ==
    IF i < 0 THEN (IF i + length < 0 THEN 0 ELSE i + length) ELSE Min(i, length)

\* text[start:end]
py_slice(text, start, end) ==
    SubSeq(text, py_index(start, Len(text)) + 1, py_index(end, Len(text)))

\* _chunk_summaries, line 126: whether the entry is split
is_oversized(text, max_chunk_chars) == Len(text) > max_chunk_chars

\* Mutant: the separators between the blocks are not counted.
must_flush_no_separator(current, current_len, text, max_chunk_chars) ==
    current # <<>> /\ (current_len - 2 * Len(current)) + Len(text) > max_chunk_chars

\* _chunk_summaries, lines 136-137: whether the current chunk is flushed
\* before text is added; current_len counts two characters after every block
must_flush(current, current_len, text, max_chunk_chars) ==
    LET added_length == Len(text) + (IF current # <<>> THEN 2 ELSE 0)
    IN  current # <<>> /\ current_len + added_length > max_chunk_chars

\* _chunk_summaries, lines 128-131 and 138-140: the chunks once the current
\* chunk, if any, is flushed
flush_current(chunks, current) ==
    IF current # <<>> THEN Append(chunks, join(BlankLine, current)) ELSE chunks

\* Mutant: the slices are emitted ahead of the pending chunk.
emit_oversized_before_pending(chunks, current, text, max_chunk_chars) ==
    flush_current(chunks \o split_large_entry(text, max_chunk_chars), current)

\* _chunk_summaries, lines 126-134: the pending chunk is flushed, then the
\* slices of the oversized entry are appended
emit_oversized(chunks, current, text, max_chunk_chars) ==
    flush_current(chunks, current) \o split_large_entry(text, max_chunk_chars)

\* _chunk_summaries, lines 121-146: the loop from summary i on
RECURSIVE chunk_from(_, _, _, _, _, _)
chunk_from(summaries, i, chunks, current, current_len, max_chunk_chars) ==
    IF i > Len(summaries)
    THEN flush_current(chunks, current)
    ELSE LET text == strip(summaries[i])
         IN  IF text = <<>>
             THEN chunk_from(summaries, i + 1, chunks, current, current_len,
                             max_chunk_chars)
             ELSE IF is_oversized(text, max_chunk_chars)
             THEN chunk_from(summaries, i + 1,
                             emit_oversized(chunks, current, text, max_chunk_chars),
                             <<>>, 0, max_chunk_chars)
             ELSE IF must_flush(current, current_len, text, max_chunk_chars)
             THEN chunk_from(summaries, i + 1, flush_current(chunks, current),
                             <<text>>, Len(text) + 2, max_chunk_chars)
             ELSE chunk_from(summaries, i + 1, chunks, Append(current, text),
                             current_len + Len(text) + 2, max_chunk_chars)

\* StoryWriter._chunk_summaries
chunk_summaries(summaries, max_chunk_chars) ==
    chunk_from(summaries, 1, <<>>, <<>>, 0, max_chunk_chars)

(***************************************************************************)
(* StoryWriter.generate_story (story_writer.py).                           *)
(***************************************************************************)
\* Python's s[-n:]: the last n characters, all of s when n = 0, and s without
\* its first -n characters when n < 0
tail_slice(s, n) ==
    IF n > 0 THEN SubSeq(s, (IF Len(s) > n THEN Len(s) - n + 1 ELSE 1), Len(s))
    ELSE SubSeq(s, 1 - n, Len(s))

\* _compose_prompt, line 78
excerpt_of(story_so_far, story_so_far_limit) ==
    strip(tail_slice(story_so_far, story_so_far_limit))

Framing == <<"You are an expert long-form fiction writer ...">>
Style == <<"Write 3-6 paragraphs in third-person past tense. ...">>
ContextHeader == <<"World and character context:", "\n">>
StartOfStory == <<"Story so far: [Start of story]">>
BeatsHeader == <<"Story beats to cover:", "\n">>
Closing == <<"Produce only the narrative continuation.">>

\* _compose_prompt, line 99
StorySoFarHeader(story_so_far_limit) ==
    <<"Story so far (last ", ToString(story_so_far_limit), " chars):", "\n">>

\* StoryWriter._compose_prompt
compose_prompt(chunk, context_text, story_so_far, story_so_far_limit) ==
    LET excerpt == excerpt_of(story_so_far, story_so_far_limit)
        parts == <<Framing, Style>>
                 \o (IF context_text # <<>> THEN <<ContextHeader \o context_text>> ELSE <<>>)
                 \o (IF excerpt # <<>>
                     THEN <<StorySoFarHeader(story_so_far_limit) \o excerpt>>
                     ELSE <<StartOfStory>>)
                 \o <<BeatsHeader \o chunk, Closing>>
    IN  join(BlankLine, parts)

\* generate_story, lines 52-61: the section the backend gives; a call that
\* raises gives the empty section, and so does no backend or stub mode
backend_section(use_backend, response) ==
    IF use_backend /\ ~response.raises THEN strip(response.text) ELSE <<>>

\* generate_story, lines 62-64
section_or_chunk(section, chunk) == IF section = <<>> THEN chunk ELSE section

\* generate_story, line 69
extend_story_so_far(story_so_far, cleaned) ==
    strip(story_so_far \o BlankLine \o cleaned)

\* generate_story, line 71
assemble(story_sections) ==
    strip(join(BlankLine, SelectSeq(story_sections, LAMBDA section : section # <<>>)))

(***************************************************************************)
(* The inputs of _chunk_summaries.                                         *)
(***************************************************************************)
SummaryChars == {"a", " "}

SummaryTexts == UNION {[1..n -> SummaryChars] : n \in 1..MaxSummaryLen}

SummaryLists == UNION {[1..n -> SummaryTexts] : n \in 0..MaxSummaries}

\* max_chunk_chars
Budgets == 1..MaxBudget

\* The summaries prepare_turn_summaries hands to generate_story's loop: not
\* blank and with no blanks around them
StoryTexts == {<<"a">>, <<"a", " ", "a">>, <<"a", "a", "a">>}

StorySummaries == UNION {[1..n -> StoryTexts] : n \in 0..MaxStoryTurns}

\* max_chunk_chars of a story run: one that splits and one that joins
StoryBudgets == {2, 6}

\* story_so_far_limit
Limits == 0..MaxLimit

\* context_text, from _build_world_context
ContextTexts == {<<>>, <<"w">>}

\* What autofill.generate does: it raises, or returns a text
Responses ==
    {[raises |-> TRUE, text |-> <<>>]}
        \cup {[raises |-> FALSE, text |-> t] : t \in {<<>>, <<" ">>, <<"s", " ">>}}

NoResponse == [raises |-> FALSE, text |-> <<>>]

\* The leaves and trees auto_generate fills: an empty, a plain and a padded
\* string, lists, one nested mapping
AutoTrees ==
    {PyStr(<<>>), PyStr(<<"x">>), PyStr(<<" ", "x">>), PyList(<<>>), PyList(<<PyStr(<<"x">>)>>)}
        \cup {PyMap(<< <<(<<"n">>), leaf>> >>) : leaf \in {PyStr(<<>>), PyStr(<<"x">>)}}

AutoDocuments ==
    {PyMap(<< <<(<<"k">>), tree>>, <<(<<"m">>), leaf>> >>) :
        tree \in AutoTrees, leaf \in {PyStr(<<>>), PyStr(<<" ", "x">>)}}

\* The prompt configurations of field k: none, an instruction, an instruction
\* with a token cap, a cap that is not positive, a configuration per nested
\* field
AutoPrompts ==
    {PyMap(<< <<(<<"k">>), config>> >>) : config \in
    {PyMap(<<>>),
     PyStr(<<" ", "i">>),
     PyMap(<< <<(<<"instruction">>), PyStr(<<"i">>)>>, <<(<<"max_tokens">>), PyInt(<<"3", "2">>)>> >>),
     PyMap(<< <<(<<"prompt">>), PyStr(<<"i">>)>>, <<(<<"max_tokens">>), PyInt(<<"0">>)>> >>),
     PyMap(<< <<(<<"n">>), PyMap(<< <<(<<"instruction">>), PyStr(<<"i">>)>>, <<(<<"max_tokens">>), PyInt(<<"3", "2">>)>> >>)>> >>)}}

\* What the text generator does on one call: it raises, or returns a text
AutoResponses ==
    {[raises |-> TRUE, text |-> <<>>]}
        \cup {[raises |-> FALSE, text |-> t] : t \in {<<>>, <<"r", " ">>, <<"r", ",", "-", "q">>}}

AutoScripts == [1..ScriptLen -> AutoResponses]

NoAuto ==
    [pc |-> "idle", data |-> PyMap(<<>>), prompt_data |-> PyMap(<<>>), user_prompt |-> <<>>,
     story_context |-> PyNone, script |-> <<>>, on_field_filled |-> FALSE,
     result |-> PyMap(<<>>), calls |-> <<>>, assigned |-> <<>>, callbacks |-> <<>>]

NoStory ==
    [pc |-> "idle", summaries |-> <<>>, max_chunk_chars |-> 1,
     story_so_far_limit |-> 0, context_text |-> <<>>, use_backend |-> FALSE,
     chunks |-> <<>>, done_chunks |-> 0, story_sections |-> <<>>,
     story_so_far |-> <<>>, story_so_far_before |-> <<>>, prompt |-> <<>>,
     response |-> NoResponse, result |-> <<>>]

NoChunking ==
    [pc |-> "idle", summaries |-> <<>>, max_chunk_chars |-> 1, chunks |-> <<>>]

(***************************************************************************)
(* The inputs of process_turn.                                             *)
(***************************************************************************)
\* player_actions: absent, or a map with a padded key, a padded value and
\* an entry whose key is blank
ActionInputs ==
    { PyNone,
      PyMap(<< <<<<" ", "A", " ">>, PyStr(<<" ", "a", " ">>)>>,
               <<<<" ">>, PyStr(<<"a">>)>> >>) }

\* per_player_outcomes
OutcomeInputs ==
    { PyNone, PyMap(<< <<<<"B">>, PyStr(<<"o">>)>> >>) }

\* player_reflections: its keys are used as they come
ReflectionInputs ==
    { PyNone, PyMap(<< <<<<" ", "A">>, PyStr(<<"y", " ">>)>> >>) }

\* gm_summary
SummaryInputs == { PyStr(<<" ", "S", " ">>), PyStr(<<"T">>) }

\* The entries a Storyline.json found on disk may hold: one written by
\* process_turn, one written by the application, one without origin, one
\* with an author instead, and a bare string.
LedgerEntries ==
    { turn_entry(1, PyStr(<<"T">>), EmptyDict, EmptyDict),
      [content |-> <<"x">>, origin |-> "user"],
      [content |-> <<"x">>],
      [content |-> <<"x">>, author |-> "bob"],
      BareTurn(<<"x">>) }

\* The documents StorylineManager.load may read.
LedgerDocuments ==
    [title : {<<>>, <<"t">>}, summary : {<<>>},
     turns : UNION {[1..n -> LedgerEntries] : n \in 0..MaxLedger}]

\* Every name a participant ledger can be written under.
Participants ==
    UNION { impacted_players(normalize_mapping(a), normalize_mapping(o), r) :
              <<a, o, r>> \in ActionInputs \X OutcomeInputs \X ReflectionInputs }

\* The maps _normalize_mapping is given on its own: none, an empty one, and
\* maps of one or two entries with padded, blank and equal-after-trimming
\* keys and padded, blank and absent values
MappingEntries ==
    {<<k, v>> : k \in {<<" ", "A", " ">>, <<"A">>, <<" ">>, <<"B">>}, v \in {PyStr(<<" ", "a", " ">>), PyStr(<<" ">>), PyNone}}

MappingInputs ==
    {PyNone, PyMap(<<>>)} \cup {PyMap(<<e>>) : e \in MappingEntries}
        \cup {PyMap(<<e, f>>) : <<e, f>> \in {x \in MappingEntries \X MappingEntries : x[1][1] # x[2][1]}}

\* The values a reflection mapping holds under a key: padded, plain and
\* blank texts, nothing, a number, sequences of clean texts, of padded and
\* blank ones, an empty one, and a mapping
ReflectionValues ==
    { PyStr(<<" ", "x", " ">>), PyStr(<<"x">>), PyStr(<<>>), PyNone, PyInt(<<"5">>),
      PyList(<<PyStr(<<"a">>), PyStr(<<"b">>)>>),
      PyList(<<PyStr(<<" ", "a">>), PyStr(<<>>)>>),
      PyList(<<>>),
      PyMap(<< <<<<"k">>, PyStr(<<"v">>)>> >>) }

ReflectionEntries ==
    {<<k, v>> : k \in {"notes", "thoughts", "reflection", "candidate_actions", "plans", "next_actions", "next_steps", "mood"}, v \in ReflectionValues}

\* The payloads _normalize_reflection is given on its own: nothing, texts,
\* numbers, booleans, bare sequences, and mappings of up to two entries in
\* either order
ReflectionPayloads ==
    {PyNone, PyStr(<<" ", "y", " ">>), PyStr(<<"y">>), PyStr(<<>>), PyInt(<<"5">>), PyInt(<<"0">>), PyBool(TRUE), PyBool(FALSE),
     PyList(<<PyNone, PyInt(<<"5">>)>>), PyMap(<<>>)}
        \cup {v \in ReflectionValues : v.kind = "list"}
        \cup {PyMap(<<e>>) : e \in ReflectionEntries}
        \cup {PyMap(<<e, f>>) : <<e, f>> \in {x \in ReflectionEntries \X ReflectionEntries : x[1][1] # x[2][1]}}

\* The characters of a backend response.
ResponseChars == {"[", "]", ",", "\"", "a", " ", "\n", "-", "1"}

\* The responses _parse_list_response is given on its own.
ListResponses == UNION {[1..n -> ResponseChars] : n \in 0..MaxResponseLen}

\* A field a prompt configuration does not have.
Absent == [kind |-> "absent", v |-> <<>>]

\* What a prompt configuration holds under instruction, prompt or text, and
\* under max_tokens
ConfigTexts ==
    { Absent, PyNone, PyStr(<<" ", "i", " ">>), PyStr(<<>>), PyInt(<<"5">>), PyInt(<<"0">>),
      PyBool(TRUE), PyList(<<PyStr(<<"x">>)>>), PyMap(<<>>) }

ConfigTokens ==
    { Absent, PyNone, PyInt(<<"3">>), PyInt(<<"0">>), PyInt(<<"-", "1">>), PyBool(TRUE),
      PyBool(FALSE), PyStr(<<"5">>) }

\* The prompt configurations from_config is given on its own: values that
\* are no dict, and dicts with any of the four fields
PromptConfigs ==
    { PyNone, PyStr(<<" ", "i", " ">>), PyStr(<<>>), PyInt(<<"5">>), PyBool(TRUE), PyList(<<>>) }
        \cup { PyMap(SelectSeq(<< <<(<<"instruction">>), i>>, <<(<<"prompt">>), q>>,
                                  <<(<<"text">>), t>>, <<(<<"max_tokens">>), m>> >>,
                               LAMBDA e : e[2] # Absent)) :
                  i \in ConfigTexts, q \in ConfigTexts, t \in ConfigTexts, m \in ConfigTokens }

\* The entries _split_large_entry is called with: trimmed and not empty.
SplitTexts ==
    {t \in UNION {[1..n -> SummaryChars \cup {"b"}] : n \in 1..MaxSummaryLen} : strip(t) = t}

\* max_chunk_chars: any integer the constructor is given
SplitBudgets == (-1)..MaxBudget

NoApplied == [pc |-> "idle", fn |-> "", input |-> PyNone, output |-> PyNone]

(***************************************************************************)
(* State.                                                                  *)
(***************************************************************************)
\* What the add-turn and autofill-turn flows gather before they commit: a
\* GM summary, stripped and not empty, and maps of stripped non-empty texts
\* by player
GatheredSummaries == { PyStr(<<"S">>), PyStr(<<"T">>) }

GatheredActions == { PyMap(<<>>), PyMap(<< <<<<"A">>, PyStr(<<"a">>)>> >>) }

GatheredOutcomes == { PyMap(<<>>), PyMap(<< <<<<"A">>, PyStr(<<"o">>)>> >>) }

GatheredReflections == { PyMap(<<>>), PyMap(<< <<<<"A">>, PyStr(<<"y">>)>> >>) }

NoGather ==
    [pc |-> "idle", gm_summary |-> PyNone, player_actions |-> PyNone,
     per_player_outcomes |-> PyNone, player_reflections |-> PyNone]

NoCall ==
    [pc |-> "idle",
     player_actions |-> PyNone,
     gm_summary |-> PyNone,
     per_player_outcomes |-> PyNone,
     player_reflections |-> PyNone,
     normalized_actions |-> EmptyDict,
     normalized_outcomes |-> EmptyDict,
     turn_number |-> 0,
     turn_entry |-> turn_entry(0, PyNone, EmptyDict, EmptyDict),
     impacted |-> {},
     pending |-> <<>>,
     before |-> [p \in Participants |-> NoFile],
     result |-> [turn |-> 0, players |-> EmptyDict]]

\* A project folder that holds nothing yet: ensure_initialized writes the
\* cleared template on the first load.
InitProject ==
    /\ storyline = DEFAULT_TEMPLATE
    /\ chars = [p \in Participants |-> NoFile]
    /\ call = NoCall
    /\ issued = <<>>
    /\ storyline_turns = <<>>
    /\ gathered = NoGather
    /\ applied = NoApplied
    /\ auto = NoAuto

Init ==
    /\ InitProject
    /\ walker = NoWalk
    /\ writer = NoChunking
    /\ story = NoStory

(***************************************************************************)
(* process_turn, one step per document written.                            *)
(***************************************************************************)
\* _normalize_mapping, lines 140-142: a falsy value is not iterated, and of
\* the other values only a mapping has items()
HasItems(values) == ~Truthy(values) \/ values.kind = "map"

\* Mutant: the shared ledger is not saved before the participants are
\* written.
ProcessTurnBegin_unsaved(player_actions, gm_summary, per_player_outcomes, player_reflections) ==
    /\ call.pc # "players"
    /\ Len(issued) < MaxTurns
    /\ LET normalized_actions == normalize_mapping(player_actions)
           normalized_outcomes == normalize_mapping(per_player_outcomes)
           turn_number == Len(get_turns(storyline)) + 1
           entry == turn_entry(turn_number, gm_summary, normalized_actions,
                               normalized_outcomes)
           impacted == (DOMAIN normalized_actions) \cup (DOMAIN normalized_outcomes)
                           \cup Keys(player_reflections)
       IN  /\ issued' = Append(issued, turn_number)
           /\ call' = [pc |-> "players",
                       player_actions |-> player_actions,
                       gm_summary |-> gm_summary,
                       per_player_outcomes |-> per_player_outcomes,
                       player_reflections |-> player_reflections,
                       normalized_actions |-> normalized_actions,
                       normalized_outcomes |-> normalized_outcomes,
                       turn_number |-> turn_number,
                       turn_entry |-> entry,
                       impacted |-> impacted,
                       pending |-> sorted(impacted),
                       before |-> chars,
                       result |-> [turn |-> 0, players |-> EmptyDict]]
    /\ UNCHANGED <<storyline, chars, storyline_turns, walker, writer, story, auto, applied>>

\* Lines 85-105: normalize the maps, load the shared ledger, number the
\* turn, append the entry and save the shared ledger.
ProcessTurnBegin(player_actions, gm_summary, per_player_outcomes, player_reflections) ==
    /\ call.pc # "players"
    /\ Len(issued) < MaxTurns
    /\ HasItems(player_actions) /\ HasItems(per_player_outcomes)
    /\ LET normalized_actions == normalize_mapping(player_actions)
           normalized_outcomes == normalize_mapping(per_player_outcomes)
           turns == get_turns(storyline)
           turn_number == next_turn_number(turns)
           entry == turn_entry(turn_number, gm_summary, normalized_actions,
                               normalized_outcomes)
           impacted == impacted_players(normalized_actions, normalized_outcomes,
                                        player_reflections)
       IN  /\ storyline' = update_turns(storyline, Append(turns, entry))
           /\ issued' = Append(issued, turn_number)
           /\ call' = [pc |-> "players",
                       player_actions |-> player_actions,
                       gm_summary |-> gm_summary,
                       per_player_outcomes |-> per_player_outcomes,
                       player_reflections |-> player_reflections,
                       normalized_actions |-> normalized_actions,
                       normalized_outcomes |-> normalized_outcomes,
                       turn_number |-> turn_number,
                       turn_entry |-> entry,
                       impacted |-> impacted,
                       pending |-> sorted(impacted),
                       before |-> chars,
                       result |-> NoCall.result]
    /\ UNCHANGED <<chars, storyline_turns, walker, writer, story, auto, applied>>

\* Mutant: every existing participant document has its last_turn advanced.
AppendPlayerTurn_advancing_all ==
    /\ call.pc = "players"
    /\ call.pending # <<>>
    /\ LET player == Head(call.pending)
       IN  chars' = [p \in Participants |->
                        IF p = player
                        THEN append_player_turn(chars, player, call.turn_number,
                                 call.gm_summary,
                                 DictGet(call.normalized_actions, player),
                                 DictGet(call.normalized_outcomes, player),
                                 MapGet(call.player_reflections, player))
                        ELSE IF chars[p].exists
                        THEN [chars[p] EXCEPT !.last_turn = call.turn_number]
                        ELSE chars[p]]
    /\ call' = [call EXCEPT !.pending = Tail(call.pending)]
    /\ UNCHANGED <<storyline, issued, storyline_turns, walker, writer, story, gathered, auto, applied>>

\* Lines 106-115, one iteration: the next player in sorted order gets its
\* record and its document is saved.
AppendPlayerTurn ==
    /\ call.pc = "players"
    /\ call.pending # <<>>
    /\ LET player == Head(call.pending)
       IN  chars' = [chars EXCEPT ![player] =
                        append_player_turn(chars, player, call.turn_number,
                            call.gm_summary,
                            DictGet(call.normalized_actions, player),
                            DictGet(call.normalized_outcomes, player),
                            MapGet(call.player_reflections, player))]
    /\ call' = [call EXCEPT !.pending = Tail(call.pending)]
    /\ UNCHANGED <<storyline, issued, storyline_turns, walker, writer, story, gathered, auto, applied>>

\* Lines 117-133: the result is built from the documents on disk.
ProcessTurnReturn ==
    /\ call.pc = "players"
    /\ call.pending = <<>>
    /\ call' = [call EXCEPT
                  !.pc = "returned",
                  !.result = [turn |-> call.turn_number,
                              storyline_entry |-> call.turn_entry,
                              players |-> [p \in call.impacted |->
                                              load_player_state(chars, p)]]]
    /\ UNCHANGED <<storyline, chars, issued, storyline_turns, walker, writer, story, gathered, auto, applied>>

\* A participant write raises (Project.save_json, line 182): the call ends
\* there and what was written stays written.
ProcessTurnFail ==
    /\ call.pc = "players"
    /\ call.pending # <<>>
    /\ call' = [call EXCEPT !.pc = "failed"]
    /\ UNCHANGED <<storyline, chars, issued, storyline_turns, walker, writer, story, gathered, auto, applied>>

\* Lines 85-86: _normalize_mapping calls items() on a non-empty value that
\* is not a mapping (AttributeError); nothing has been read or written yet.
ProcessTurnRaise(player_actions, gm_summary, per_player_outcomes, player_reflections) ==
    /\ call.pc # "players"
    /\ ~(HasItems(player_actions) /\ HasItems(per_player_outcomes))
    /\ call' = [NoCall EXCEPT !.pc = "raised",
                              !.player_actions = player_actions,
                              !.gm_summary = gm_summary,
                              !.per_player_outcomes = per_player_outcomes,
                              !.player_reflections = player_reflections]
    /\ UNCHANGED <<storyline, chars, issued, storyline_turns, walker, writer, story, auto, applied>>

ProcessTurn ==
    \/ \E a \in ActionInputs, g \in SummaryInputs, o \in OutcomeInputs,
          r \in ReflectionInputs :
              ProcessTurnBegin(a, g, o, r) /\ UNCHANGED gathered
    \/ AppendPlayerTurn
    \/ ProcessTurnReturn
    \/ ProcessTurnFail

Next == ProcessTurn

\* A project that starts empty and is written by process_turn alone.
Spec == Init /\ [][Next]_vars

(***************************************************************************)
(* The caller's handlers on the shared ledger (app.py).                    *)
(***************************************************************************)
\* StoryBuilderApp._load_storyline, lines 432-433
LoadStoryline ==
    /\ call.pc # "players"
    /\ storyline_turns' = get_turns(storyline)
    /\ UNCHANGED <<storyline, chars, call, issued, walker, writer, story, gathered, auto, applied>>

\* StoryBuilderApp._persist_storyline: the in-memory list replaces the
\* ledger's turns.
persist_storyline(turns) == update_turns(storyline, turns)

\* StoryBuilderApp._delete_storyline_turn; index counts from 1 here
DeleteStorylineTurn(index) ==
    /\ call.pc # "players"
    /\ index <= Len(storyline_turns)
    /\ storyline_turns' = SubSeq(storyline_turns, 1, index - 1)
                            \o SubSeq(storyline_turns, index + 1, Len(storyline_turns))
    /\ storyline' = persist_storyline(storyline_turns')
    /\ UNCHANGED <<chars, call, issued, walker, writer, story, gathered, auto, applied>>

\* StoryBuilderApp._move_storyline_turn
MoveStorylineTurn(index, delta) ==
    /\ call.pc # "players"
    /\ storyline_turns # <<>>
    /\ index <= Len(storyline_turns)
    /\ index + delta >= 1
    /\ index + delta <= Len(storyline_turns)
    /\ storyline_turns' = [storyline_turns EXCEPT
                              ![index] = storyline_turns[index + delta],
                              ![index + delta] = storyline_turns[index]]
    /\ storyline' = persist_storyline(storyline_turns')
    /\ UNCHANGED <<chars, call, issued, walker, writer, story, gathered, auto, applied>>

\* x or None
or_none(value) == IF Truthy(value) THEN value ELSE PyNone

\* _add_storyline_turn, lines 716-722, and _autofill_storyline_turn, lines
\* 840-846: the turn gathered is committed by a positional call
\* process_turn(project_folder, gm_summary, player_actions or None,
\* per_player_outcomes or None, player_reflections or None), whose second
\* parameter is player_actions and whose third is gm_summary
CommitStorylineTurn(gm_summary, player_actions, per_player_outcomes, player_reflections) ==
    /\ gathered' = [pc |-> "committed", gm_summary |-> gm_summary,
                    player_actions |-> player_actions,
                    per_player_outcomes |-> per_player_outcomes,
                    player_reflections |-> player_reflections]
    /\ \/ ProcessTurnBegin(gm_summary, or_none(player_actions),
                           or_none(per_player_outcomes), or_none(player_reflections))
       \/ ProcessTurnRaise(gm_summary, or_none(player_actions),
                           or_none(per_player_outcomes), or_none(player_reflections))

NextCaller ==
    \/ \E a \in ActionInputs, g \in SummaryInputs :
          ProcessTurnBegin(a, g, PyNone, PyNone) /\ UNCHANGED gathered
    \/ AppendPlayerTurn
    \/ ProcessTurnReturn
    \/ LoadStoryline
    \/ \E index \in 1..MaxTurns : DeleteStorylineTurn(index)
    \/ \E index \in 1..MaxTurns, delta \in {-1, 1} : MoveStorylineTurn(index, delta)

\* process_turn interleaved with the caller's deletion and reordering.
SpecCaller == Init /\ [][NextCaller]_vars

\* A project folder whose Storyline.json already exists.
InitLedger ==
    /\ storyline \in LedgerDocuments
    /\ chars = [p \in Participants |-> NoFile]
    /\ call = NoCall
    /\ issued = <<>>
    /\ storyline_turns = <<>>
    /\ gathered = NoGather
    /\ applied = NoApplied
    /\ auto = NoAuto
    /\ walker = NoWalk
    /\ writer = NoChunking
    /\ story = NoStory

NextLedger ==
    \/ \E a \in ActionInputs, g \in SummaryInputs :
          ProcessTurnBegin(a, g, PyNone, PyNone) /\ UNCHANGED gathered
    \/ AppendPlayerTurn
    \/ ProcessTurnReturn

\* process_turn on a ledger read from disk.
SpecLedger == InitLedger /\ [][NextLedger]_vars

NextApp ==
    \/ \E g \in GatheredSummaries, a \in GatheredActions, o \in GatheredOutcomes,
          r \in GatheredReflections : CommitStorylineTurn(g, a, o, r)
    \/ LoadStoryline
    \/ \E index \in 1..MaxLedger : DeleteStorylineTurn(index)
    \/ \E index \in 1..MaxLedger, delta \in {-1, 1} : MoveStorylineTurn(index, delta)

\* The application's storyline handlers on a project read from disk.
SpecApp == InitLedger /\ [][NextApp]_vars

(***************************************************************************)
(* One walk over a document, with the dialog scripted.                     *)
(***************************************************************************)
InitWalk ==
    /\ InitProject
    /\ \E data \in Documents \cup ContextDocuments, script \in Scripts, full_edit \in BOOLEAN :
           walker = [NoWalk EXCEPT !.pc = "ready", !.data = data,
                                   !.script = script, !.full_edit = full_edit]
    /\ writer = NoChunking
    /\ story = NoStory

\* FieldWalker.walk(data, prompt_data), dialog.exit_early reset before it
\* as _edit_world and _edit_character do
Walk ==
    /\ walker.pc = "ready"
    /\ LET walked == walk(walker.data, walker.script, walker.full_edit)
       IN  walker' = [walker EXCEPT !.pc = "done",
                                    !.result = walked.v,
                                    !.exit_early = walked.ws.exit_early,
                                    !.log = walked.ws.log]
    /\ UNCHANGED <<storyline, chars, call, issued, storyline_turns, writer, story, gathered, auto, applied>>

NextWalk == Walk

SpecWalk == InitWalk /\ [][NextWalk]_vars

(***************************************************************************)
(* One chunking of a list of summaries.                                    *)
(***************************************************************************)
InitChunk ==
    /\ InitProject
    /\ walker = NoWalk
    /\ \E summaries \in SummaryLists, max_chunk_chars \in Budgets :
           writer = [NoChunking EXCEPT !.pc = "ready", !.summaries = summaries,
                                       !.max_chunk_chars = max_chunk_chars]
    /\ story = NoStory

\* StoryWriter._chunk_summaries(summaries)
ChunkSummaries ==
    /\ writer.pc = "ready"
    /\ writer' = [writer EXCEPT
                    !.pc = "done",
                    !.chunks = chunk_summaries(writer.summaries,
                                               writer.max_chunk_chars)]
    /\ UNCHANGED <<storyline, chars, call, issued, storyline_turns, walker, story, gathered, auto, applied>>

NextChunk == ChunkSummaries

SpecChunk == InitChunk /\ [][NextChunk]_vars

(***************************************************************************)
(* One generate_story run.                                                 *)
(***************************************************************************)
InitStory ==
    /\ InitProject
    /\ walker = NoWalk
    /\ writer = NoChunking
    /\ \E summaries \in StorySummaries, max_chunk_chars \in StoryBudgets,
          story_so_far_limit \in Limits, context_text \in ContextTexts,
          use_backend \in BOOLEAN :
           story = [NoStory EXCEPT !.pc = "ready", !.summaries = summaries,
                                   !.max_chunk_chars = max_chunk_chars,
                                   !.story_so_far_limit = story_so_far_limit,
                                   !.context_text = context_text,
                                   !.use_backend = use_backend]

\* generate_story, lines 42-50: nothing to write, or the chunks are made
GenerateStoryBegin ==
    /\ story.pc = "ready"
    /\ story' = IF story.summaries = <<>>
                THEN [story EXCEPT !.pc = "done", !.result = <<>>]
                ELSE [story EXCEPT
                        !.pc = "chunks",
                        !.chunks = chunk_summaries(story.summaries,
                                                   story.max_chunk_chars)]
    /\ UNCHANGED <<storyline, chars, call, issued, storyline_turns, walker, writer, gathered, auto, applied>>

\* Mutant: a backend call that raises ends the run.
GenerateStoryChunk_unguarded(response) ==
    /\ story.pc = "chunks"
    /\ story.done_chunks < Len(story.chunks)
    /\ LET chunk == story.chunks[story.done_chunks + 1]
           prompt == compose_prompt(chunk, story.context_text, story.story_so_far,
                                    story.story_so_far_limit)
           section == section_or_chunk(backend_section(story.use_backend, response),
                                       chunk)
           cleaned == strip(section)
       IN  story' = IF story.use_backend /\ response.raises
                    THEN [story EXCEPT !.pc = "raised", !.prompt = prompt,
                                       !.response = response]
                    ELSE [story EXCEPT
                        !.done_chunks = story.done_chunks + 1,
                        !.prompt = prompt,
                        !.response = response,
                        !.story_so_far_before = story.story_so_far,
                        !.story_sections =
                            IF cleaned # <<>> THEN Append(story.story_sections, cleaned)
                            ELSE story.story_sections,
                        !.story_so_far =
                            IF cleaned # <<>>
                            THEN extend_story_so_far(story.story_so_far, cleaned)
                            ELSE story.story_so_far]
    /\ UNCHANGED <<storyline, chars, call, issued, storyline_turns, walker, writer, gathered, auto, applied>>

\* generate_story, lines 50-69, one iteration: the directive is composed,
\* the backend answers, the section is kept
GenerateStoryChunk(response) ==
    /\ story.pc = "chunks"
    /\ story.done_chunks < Len(story.chunks)
    /\ LET chunk == story.chunks[story.done_chunks + 1]
           prompt == compose_prompt(chunk, story.context_text, story.story_so_far,
                                    story.story_so_far_limit)
           section == section_or_chunk(backend_section(story.use_backend, response),
                                       chunk)
           cleaned == strip(section)
       IN  story' = [story EXCEPT
                        !.done_chunks = story.done_chunks + 1,
                        !.prompt = prompt,
                        !.response = response,
                        !.story_so_far_before = story.story_so_far,
                        !.story_sections =
                            IF cleaned # <<>> THEN Append(story.story_sections, cleaned)
                            ELSE story.story_sections,
                        !.story_so_far =
                            IF cleaned # <<>>
                            THEN extend_story_so_far(story.story_so_far, cleaned)
                            ELSE story.story_so_far]
    /\ UNCHANGED <<storyline, chars, call, issued, storyline_turns, walker, writer, gathered, auto, applied>>

\* generate_story, line 71
GenerateStoryReturn ==
    /\ story.pc = "chunks"
    /\ story.done_chunks = Len(story.chunks)
    /\ story' = [story EXCEPT !.pc = "done",
                              !.result = assemble(story.story_sections)]
    /\ UNCHANGED <<storyline, chars, call, issued, storyline_turns, walker, writer, gathered, auto, applied>>

NextStory ==
    \/ GenerateStoryBegin
    \/ \E response \in (IF story.use_backend THEN Responses ELSE {NoResponse}) :
           GenerateStoryChunk(response)
    \/ GenerateStoryReturn

SpecStory == InitStory /\ [][NextStory]_vars

(***************************************************************************)
(* One auto_generate run, with the text generator scripted.                *)
(***************************************************************************)
InitAuto ==
    /\ storyline = DEFAULT_TEMPLATE
    /\ chars = [p \in Participants |-> NoFile]
    /\ call = NoCall
    /\ issued = <<>>
    /\ storyline_turns = <<>>
    /\ gathered = NoGather
    /\ applied = NoApplied
    /\ walker = NoWalk
    /\ writer = NoChunking
    /\ story = NoStory
    /\ \E data \in AutoDocuments, prompt_data \in AutoPrompts, script \in AutoScripts, user_prompt \in {<<>>, <<"u">>}, story_context \in {PyNone, PyMap(<< <<(<<"s">>), PyStr(<<"a">>)>> >>)}, on_field_filled \in BOOLEAN :
           auto = [NoAuto EXCEPT !.pc = "ready", !.data = data, !.prompt_data = prompt_data,
                                 !.script = script, !.user_prompt = user_prompt,
                                 !.story_context = story_context,
                                 !.on_field_filled = on_field_filled]

\* FieldWalker.auto_generate(data, prompt_data, user_prompt=..., story_context=...),
\* called with or without the keyword on_field_filled as _autofill_world and
\* _autofill_character call it: the keyword is not among its parameters, the
\* call raises TypeError before the body runs; no callback is ever invoked
AutoGenerate ==
    /\ auto.pc = "ready"
    /\ IF auto.on_field_filled
       THEN auto' = [auto EXCEPT !.pc = "raised"]
       ELSE LET filled == auto_generate(auto.data, auto.prompt_data, auto.user_prompt, auto.story_context, auto.script)
            IN  auto' = [auto EXCEPT !.pc = "done",
                                     !.result = filled.v,
                                     !.calls = filled.aws.calls,
                                     !.assigned = filled.aws.assigned]
    /\ UNCHANGED <<storyline, chars, call, issued, storyline_turns, walker, writer, story, gathered, applied>>

NextAuto == AutoGenerate

SpecAuto == InitAuto /\ [][NextAuto]_vars

(***************************************************************************)
(* One call of a helper on its own.                                        *)
(***************************************************************************)
InitApplied ==
    /\ storyline = DEFAULT_TEMPLATE
    /\ chars = [p \in Participants |-> NoFile]
    /\ call = NoCall
    /\ issued = <<>>
    /\ storyline_turns = <<>>
    /\ gathered = NoGather
    /\ walker = NoWalk
    /\ writer = NoChunking
    /\ story = NoStory
    /\ auto = NoAuto
    /\ \E fn \in {"_normalize_mapping", "_normalize_reflection", "_parse_list_response", "from_config"} :
           \E input \in (CASE fn = "_normalize_mapping" -> MappingInputs
                           [] fn = "_normalize_reflection" -> ReflectionPayloads
                           [] fn = "_parse_list_response" -> {PyStr(t) : t \in ListResponses}
                           [] fn = "from_config" -> PromptConfigs) :
               applied = [NoApplied EXCEPT !.pc = "ready", !.fn = fn, !.input = input]

\* TurnProcessor._normalize_mapping(values)
NormalizeMapping ==
    /\ applied.pc = "ready"
    /\ applied.fn = "_normalize_mapping"
    /\ applied' = [applied EXCEPT !.pc = "done", !.output = normalize_mapping(applied.input)]
    /\ UNCHANGED <<storyline, chars, call, issued, storyline_turns, walker, writer, story, gathered, auto>>

\* TurnProcessor._normalize_reflection(payload)
NormalizeReflection ==
    /\ applied.pc = "ready"
    /\ applied.fn = "_normalize_reflection"
    /\ applied' = [applied EXCEPT !.pc = "done", !.output = normalize_reflection(applied.input)]
    /\ UNCHANGED <<storyline, chars, call, issued, storyline_turns, walker, writer, story, gathered, auto>>

\* FieldWalker._parse_list_response(response)
ParseListResponse ==
    /\ applied.pc = "ready"
    /\ applied.fn = "_parse_list_response"
    /\ applied' = [applied EXCEPT
                     !.pc = "done",
                     !.output = IF parse_list_raises(applied.input.v)
                                THEN [raises |-> TRUE, items |-> <<>>]
                                ELSE [raises |-> FALSE, items |-> parse_list_response(applied.input.v)]]
    /\ UNCHANGED <<storyline, chars, call, issued, storyline_turns, walker, writer, story, gathered, auto>>

\* PromptSpec.from_config(config)
FromConfig ==
    /\ applied.pc = "ready"
    /\ applied.fn = "from_config"
    /\ applied' = [applied EXCEPT !.pc = "done", !.output = from_config(applied.input)]
    /\ UNCHANGED <<storyline, chars, call, issued, storyline_turns, walker, writer, story, gathered, auto>>

NextApplied ==
    \/ NormalizeMapping
    \/ NormalizeReflection
    \/ ParseListResponse
    \/ FromConfig

SpecApplied == InitApplied /\ [][NextApplied]_vars

(***************************************************************************)
(* The loop of one _split_large_entry call, iteration by iteration.        *)
(***************************************************************************)
\* _chunk_summaries, lines 126-133: the call is made for an entry longer
\* than max_chunk_chars
InitSplit ==
    /\ storyline = DEFAULT_TEMPLATE
    /\ chars = [p \in Participants |-> NoFile]
    /\ call = NoCall
    /\ issued = <<>>
    /\ storyline_turns = <<>>
    /\ gathered = NoGather
    /\ walker = NoWalk
    /\ writer = NoChunking
    /\ story = NoStory
    /\ auto = NoAuto
    /\ \E text \in SplitTexts, max_chunk_chars \in SplitBudgets :
           /\ is_oversized(text, max_chunk_chars)
           /\ applied = [pc |-> "looping", fn |-> "_split_large_entry",
                         input |-> [text |-> text, max_chunk_chars |-> max_chunk_chars],
                         output |-> [start |-> 0, parts |-> <<>>, steps |-> 0]]

\* _split_large_entry, lines 154-157: one pass of the while loop
SplitPart ==
    /\ applied.pc = "looping"
    /\ applied.output.start < Len(applied.input.text)
    /\ applied.output.steps < MaxSplitSteps
    /\ LET start == applied.output.start
           end == Min(start + applied.input.max_chunk_chars, Len(applied.input.text))
       IN  applied' = [applied EXCEPT
                         !.output.parts = Append(@, strip(py_slice(applied.input.text, start, end))),
                         !.output.start = end,
                         !.output.steps = @ + 1]
    /\ UNCHANGED <<storyline, chars, call, issued, storyline_turns, walker, writer, story, gathered, auto>>

\* _split_large_entry, line 158: the loop has ended, the parts that are not
\* empty are returned
SplitReturn ==
    /\ applied.pc = "looping"
    /\ ~(applied.output.start < Len(applied.input.text))
    /\ applied' = [applied EXCEPT !.pc = "done", !.output.parts = non_empty(@)]
    /\ UNCHANGED <<storyline, chars, call, issued, storyline_turns, walker, writer, story, gathered, auto>>

NextSplit ==
    \/ SplitPart
    \/ SplitReturn

SpecSplit == InitSplit /\ [][NextSplit]_vars

(***************************************************************************)
(* Properties of process_turn.                                             *)
(***************************************************************************)
\* The entries of a map given as an argument, none for an absent map.
PairsOf(values) == IF values.kind = "map" THEN values.v ELSE <<>>

\* The keys of an input map that survive trimming, trimmed.
TrimmedKeys(m) == {strip(k) : k \in Keys(m)} \ {<<>>}

Returned == call.pc = "returned"

\* C1: from an empty ledger the k-th process_turn call numbers its turn k
\* and returns k, and the k-th entry of the persisted ledger carries turn k.
C1_TurnNumbersInOrder ==
    /\ Len(storyline.turns) = Len(issued)
    /\ \A k \in 1..Len(issued) : issued[k] = k /\ storyline.turns[k].turn = k
    /\ Returned => call.result.turn = Len(issued)

\* Two calls with identical arguments have returned two turns.
C1_Witness ==
    /\ Returned
    /\ call.result.turn = 2
    /\ storyline.turns[1].content = storyline.turns[2].content
    /\ storyline.turns[1].player_actions = storyline.turns[2].player_actions
    /\ storyline.turns[1].per_player_outcomes = storyline.turns[2].per_player_outcomes
    /\ storyline.turns[1].player_actions # EmptyDict

\* C2: at every point of a call, and after a call that failed, no
\* participant's last_turn or record is ahead of the persisted shared ledger.
C2_ParticipantsNeverAhead ==
    \A p \in Participants :
        /\ chars[p].last_turn <= Len(storyline.turns)
        /\ \A i \in 1..Len(chars[p].turns) :
               chars[p].turns[i].turn <= Len(storyline.turns)

\* A call failed after writing one participant and before writing another.
C2_Witness ==
    /\ call.pc = "failed"
    /\ \E p, q \in call.impacted :
           /\ chars[p].last_turn = Len(storyline.turns)
           /\ chars[q].last_turn < Len(storyline.turns)

\* The participants whose ledger the last call wrote a record to.
Recorded == {p \in Participants : chars[p].turns # call.before[p].turns}

\* C4: the participants recorded, and the keys of the returned players map,
\* are the trimmed non-blank action keys, the trimmed non-blank outcome keys
\* and the reflection keys; a reflection-only participant gets a record with
\* empty action and outcome.
C4_ImpactedIsUnionOfKeys ==
    Returned =>
        LET expected == TrimmedKeys(call.player_actions)
                            \cup TrimmedKeys(call.per_player_outcomes)
                            \cup Keys(call.player_reflections)
        IN  /\ Recorded = expected
            /\ DOMAIN call.result.players = expected
            /\ \A p \in Keys(call.player_reflections) :
                   p \notin TrimmedKeys(call.player_actions)
                           \cup TrimmedKeys(call.per_player_outcomes)
                   => LET turns == call.result.players[p].turns
                      IN  /\ turns # <<>>
                          /\ turns[Len(turns)].action = <<>>
                          /\ turns[Len(turns)].outcome = <<>>

\* A call returned that impacted a participant through its reflection only
\* and others through an action and an outcome.
C4_Witness ==
    /\ Returned
    /\ \E p \in Keys(call.player_reflections) :
           p \notin TrimmedKeys(call.player_actions)
    /\ TrimmedKeys(call.player_actions) # {}
    /\ TrimmedKeys(call.per_player_outcomes) # {}

\* C5: after a call that returned n, every impacted participant has one
\* record more, the last one, with turn n, the action and outcome the shared
\* entry holds for it, the trimmed summary, and last_turn = n; last_turn
\* exceeds the record count when an earlier turn left the participant out.
C5_RecordAppended ==
    Returned =>
        \A p \in DOMAIN call.result.players :
            LET old == call.before[p].turns
                new == chars[p].turns
                n == call.result.turn
                entry == call.result.storyline_entry
            IN  /\ Len(new) = Len(old) + 1
                /\ SubSeq(new, 1, Len(old)) = old
                /\ new[Len(new)].turn = n
                /\ new[Len(new)].action = DictGet(entry.player_actions, p)
                /\ new[Len(new)].outcome = DictGet(entry.per_player_outcomes, p)
                /\ new[Len(new)].global_summary = strip(call.gm_summary.v)
                /\ chars[p].last_turn = n
                /\ call.result.players[p].last_turn = n
                /\ (\E k \in 1..(n - 1) : \A i \in 1..Len(new) : new[i].turn # k)
                       => chars[p].last_turn > Len(new)

\* A participant left out of an earlier turn was recorded by a later one.
C5_Witness ==
    /\ Returned
    /\ \E p \in DOMAIN call.result.players :
           /\ chars[p].last_turn > Len(chars[p].turns)
           /\ chars[p].turns[Len(chars[p].turns)].action # <<>>

\* C3: no two appends receive the same turn number, and no participant
\* ledger holds two records with the same turn number.
C3_TurnNumbersNeverReused ==
    /\ \A i, j \in 1..Len(issued) : i < j => issued[i] < issued[j]
    /\ \A p \in Participants :
           \A i, j \in 1..Len(chars[p].turns) :
               i # j => chars[p].turns[i].turn # chars[p].turns[j].turn

\* The participants a call names: the trimmed non-blank keys of its actions
\* and outcomes and the keys of its reflections.
Named ==
    TrimmedKeys(call.player_actions) \cup TrimmedKeys(call.per_player_outcomes)
        \cup Keys(call.player_reflections)

\* C15: during and after a call, failed or not, the document of every
\* participant the call does not name is what it was when the call began.
C15_OthersUntouched ==
    call.pc \in {"players", "returned", "failed"} =>
        \A p \in Participants \ Named : chars[p] = call.before[p]

\* A call returned that wrote a record for one participant and named
\* neither of two others, one with a ledger from an earlier turn.
C15_Witness ==
    /\ Returned
    /\ \E p \in Named : chars[p].last_turn = call.turn_number
    /\ \E q \in Participants \ Named :
           /\ chars[q].exists
           /\ chars[q].last_turn < call.turn_number
           /\ chars[q] = call.before[q]
    /\ \E q \in Participants \ Named : ~chars[q].exists

\* C16: a step of process_turn that writes the shared ledger leaves every
\* entry it held where and as it was and adds one entry at the end; title
\* and summary stay; no other step of process_turn writes the ledger.
C16_LedgerAppendOnly ==
    [][IF issued' # issued
       THEN storyline' = [storyline EXCEPT !.turns = Append(storyline.turns, call'.turn_entry)]
       ELSE storyline' = storyline]_vars

\* The dict the code builds from a gathered map.
AsDict(m) == [k \in Keys(m) |-> MapGet(m, k).v]

\* C17: once the application has committed the turn it gathered, the call
\* has not raised, and when it has returned the last entry of the persisted
\* ledger carries the gathered GM summary, actions and outcomes and every
\* participant listed has a record with its own action and reflection.
C17_AppCommitRecordsTurn ==
    gathered.pc = "committed" =>
        /\ call.pc # "raised"
        /\ call.pc = "returned" =>
            LET entry == storyline.turns[Len(storyline.turns)]
            IN  /\ entry.content = gathered.gm_summary.v
                /\ entry.player_actions = AsDict(gathered.player_actions)
                /\ entry.per_player_outcomes = AsDict(gathered.per_player_outcomes)
                /\ \A p \in Keys(gathered.player_actions) :
                       LET record == chars[p].turns[Len(chars[p].turns)]
                       IN  /\ record.action = MapGet(gathered.player_actions, p).v
                           /\ record.reflection
                                  = py_str(MapGet(gathered.player_reflections, p))

\* C22: every process_turn call leaves one more entry in the persisted
\* ledger; the last entry has origin "gm", the trimmed GM summary as content
\* and the normalized action and outcome maps, and it is the entry returned.
C22_GmEntryAppendedAndReturned ==
    /\ Len(storyline.turns) = Len(issued)
    /\ Returned =>
          LET entry == storyline.turns[Len(storyline.turns)]
          IN  /\ entry.origin = "gm"
              /\ entry.content = strip(call.gm_summary.v)
              /\ entry.player_actions = normalize_mapping(call.player_actions)
              /\ entry.per_player_outcomes = normalize_mapping(call.per_player_outcomes)
              /\ call.result.storyline_entry = entry

C22_Witness ==
    /\ Returned
    /\ Len(issued) = 2
    /\ call.gm_summary = PyStr(<<" ", "S", " ">>)
    /\ storyline.turns[2].content = <<"S">>
    /\ DOMAIN storyline.turns[2].player_actions = {<<"A">>}
    /\ DOMAIN storyline.turns[2].per_player_outcomes = {<<"B">>}

\* C28: in a project that started empty, every record of a participant's
\* ledger with turn n has the content of the n-th entry of the shared ledger
\* as its global_summary, and the turn numbers of a participant's records
\* increase strictly.
C28_LedgersAgree ==
    \A player \in DOMAIN chars :
        \A i \in 1..Len(chars[player].turns) :
            LET record == chars[player].turns[i]
            IN  /\ record.turn \in 1..Len(storyline.turns)
                /\ storyline.turns[record.turn].content = record.global_summary
                /\ i > 1 => chars[player].turns[i - 1].turn < record.turn

\* a participant with records of the first and the third turn, not of the
\* second, whose summaries differ
C28_Witness ==
    \E player \in DOMAIN chars :
        /\ Len(chars[player].turns) = 2
        /\ chars[player].turns[1].turn = 1
        /\ chars[player].turns[2].turn = 3
        /\ chars[player].turns[1].global_summary # chars[player].turns[2].global_summary

\* C29: every name a participant ledger is written under is non-blank and
\* trimmed, and after a call the reflection passed under a key is in the
\* record of that turn of the participant the key trims to.
C29_ParticipantNamesTrimmed ==
    /\ \A player \in DOMAIN chars :
           chars[player].exists => (player # <<>> /\ player = strip(player))
    /\ Returned =>
           \A i \in 1..Len(PairsOf(call.player_reflections)) :
               LET name == strip(call.player_reflections.v[i][1])
                   payload == call.player_reflections.v[i][2]
               IN  name # <<>> =>
                       /\ name \in DOMAIN chars
                       /\ chars[name].exists
                       /\ chars[name].turns[Len(chars[name].turns)].turn = call.turn_number
                       /\ chars[name].turns[Len(chars[name].turns)].reflection
                              = normalize_reflection(payload)[1]

(***************************************************************************)
(* Properties of walk.                                                     *)
(***************************************************************************)
Missing == [kind |-> "missing", v |-> <<>>]

\* The node of a tree at a path, Missing when the tree has none there.
RECURSIVE Lookup(_, _)
Lookup(node, path) ==
    IF path = <<>> THEN node
    ELSE IF node.kind = "map"
    THEN IF \E i \in 1..Len(node.v) : node.v[i][1] = path[1]
         THEN LET i == CHOOSE j \in 1..Len(node.v) : node.v[j][1] = path[1]
              IN  Lookup(node.v[i][2], Tail(path))
         ELSE Missing
    ELSE IF node.kind = "list"
    THEN IF \E i \in 1..Len(node.v) : IndexStep(i - 1) = path[1]
         THEN LET i == CHOOSE j \in 1..Len(node.v) : IndexStep(j - 1) = path[1]
              IN  Lookup(node.v[i], Tail(path))
         ELSE Missing
    ELSE Missing

\* The paths of all the nodes of a tree.
RECURSIVE NodePaths(_)
NodePaths(node) ==
    {<<>>} \cup
    (IF node.kind = "map"
     THEN UNION {{<<node.v[i][1]>> \o q : q \in NodePaths(node.v[i][2])} :
                   i \in 1..Len(node.v)}
     ELSE IF node.kind = "list"
     THEN UNION {{<<IndexStep(i - 1)>> \o q : q \in NodePaths(node.v[i])} :
                   i \in 1..Len(node.v)}
     ELSE {})

IsPrefix(p, q) == Len(p) <= Len(q) /\ SubSeq(q, 1, Len(p)) = p

\* The paths the dialog was asked about.
Asked == {walker.log[i].path : i \in 1..Len(walker.log)}

\* A node that no dialog was about: neither it, nor a node inside it, nor a
\* node around it.
Unvisited(p) == \A q \in Asked : ~IsPrefix(p, q) /\ ~IsPrefix(q, p)

\* Every string leaf is non-blank and every list is non-empty.
RECURSIVE AllLeavesFilled(_)
AllLeavesFilled(node) ==
    IF node.kind = "str" THEN strip(node.v) # <<>>
    ELSE IF node.kind = "list"
    THEN node.v # <<>> /\ \A i \in 1..Len(node.v) : AllLeavesFilled(node.v[i])
    ELSE \A i \in 1..Len(node.v) : AllLeavesFilled(node.v[i][2])

\* C6: once exit_early is set no further ask_field call is made, and every
\* field and list element the walk had not visited has in the returned tree
\* the value it had in the input tree.
C6_ExitKeepsUnvisited ==
    (walker.pc = "done" /\ walker.exit_early) =>
        /\ \A i \in 1..Len(walker.log) : ~walker.log[i].after_exit
        /\ \A p \in NodePaths(walker.data) :
               Unvisited(p) => Lookup(walker.result, p) = Lookup(walker.data, p)

\* C7: with every leaf filled and full-edit mode off, walk asks nothing and
\* returns its input.
C7_FilledTreeUnchanged ==
    (walker.pc = "done" /\ ~walker.full_edit /\ AllLeavesFilled(walker.data)) =>
        /\ walker.log = <<>>
        /\ walker.result = walker.data

\* C8: the value stored for an empty string leaf the walk asked about is
\* the dialog's reply, trimmed.
C8_EmptyLeafGetsTrimmedReply ==
    walker.pc = "done" =>
        \A i \in 1..Len(walker.log) :
            Lookup(walker.data, walker.log[i].path) = PyStr(<<>>)
                => Lookup(walker.result, walker.log[i].path)
                       = PyStr(strip(walker.log[i].value))

\* The call of the log at position j asks for a field of a dict, not for an
\* element of a list.
FieldAsk(j) ==
    \E i \in 1..Len(walker.log[j].container) :
        walker.log[j].container[i][1] = walker.log[j].path[Len(walker.log[j].path)]

\* The summary of the value a container holds under a key.
SummaryIn(container, key) == summarize_value_for_prompt(MapGet(PyMap(container), key))

\* The context the rule gives for the leaf under key in a container: the
\* other keys with a non-empty summary, and the keys of the pre-pass that
\* are neither the leaf's own nor among those.
ExpectedContext(container, key, found) ==
    LET local == {k \in Keys(PyMap(container)) \ {key} : SummaryIn(container, k) # <<>>}
        gaps == (DOMAIN found) \ (local \cup {key})
    IN  [k \in local \cup gaps |-> IF k \in local THEN SummaryIn(container, k) ELSE found[k]]

\* C25: the context given when walk asks for a leaf holds exactly the other
\* keys of the leaf's container whose summary is non-empty, with the summary
\* of their current value (a string field answered earlier in the walk, in
\* the container or below it, is there with its answer), and the keys the
\* pre-pass found that are neither the leaf's own key nor one of those; a
\* sibling wins over the pre-pass.
C25_ContextOfLeaf ==
    walker.pc = "done" =>
        \A j \in 1..Len(walker.log) : FieldAsk(j) =>
            LET ask == walker.log[j]
                parent == SubSeq(ask.path, 1, Len(ask.path) - 1)
            IN  /\ ask.context = ExpectedContext(ask.container, ask.path[Len(ask.path)],
                                                  gather_global_context(walker.data))
                /\ \A i \in 1..(j - 1) :
                       (/\ FieldAsk(i)
                        /\ IsPrefix(parent, walker.log[i].path)
                        /\ Lookup(walker.data, walker.log[i].path).kind = "str")
                       => Lookup(PyMap(ask.container),
                                 SubSeq(walker.log[i].path, Len(parent) + 1, Len(walker.log[i].path)))
                              = PyStr(walker.log[i].value)

\* a leaf asked for after its sibling setting was answered "y", in a
\* document where the pre-pass found the setting "g"
C25_Witness ==
    /\ walker.pc = "done"
    /\ gather_global_context(walker.data) = [k \in {<<"s", "e", "t", "t", "i", "n", "g">>} |-> <<"g">>]
    /\ \E j \in 1..Len(walker.log) :
           /\ FieldAsk(j)
           /\ <<"s", "e", "t", "t", "i", "n", "g">> \in DOMAIN walker.log[j].context
           /\ walker.log[j].context[<<"s", "e", "t", "t", "i", "n", "g">>] = <<"y">>

(***************************************************************************)
(* Properties of chunking.                                                 *)
(***************************************************************************)
\* A summary as prepare_turn_summaries renders it: not blank, no blanks
\* around it.
Rendered(text) == text # <<>> /\ strip(text) = text

\* The chunks a greedy packing makes: a block joins the current chunk
\* exactly when the chunk, the separator and the block fit the budget.
RECURSIVE GreedyChunks(_, _, _)
GreedyChunks(blocks, chunk, budget) ==
    IF blocks = <<>> THEN (IF chunk = <<>> THEN <<>> ELSE <<chunk>>)
    ELSE IF chunk = <<>> THEN GreedyChunks(Tail(blocks), Head(blocks), budget)
    ELSE IF Len(chunk) + 2 + Len(Head(blocks)) <= budget
    THEN GreedyChunks(Tail(blocks), chunk \o BlankLine \o Head(blocks), budget)
    ELSE <<chunk>> \o GreedyChunks(Tail(blocks), Head(blocks), budget)

\* A text split on the blank-line separator.
RECURSIVE SplitBlankLine(_, _)
SplitBlankLine(text, current) ==
    IF text = <<>> THEN <<current>>
    ELSE IF Len(text) >= 2 /\ SubSeq(text, 1, 2) = BlankLine
    THEN <<current>> \o SplitBlankLine(SubSeq(text, 3, Len(text)), <<>>)
    ELSE SplitBlankLine(Tail(text), Append(current, Head(text)))

\* The blocks of a list of chunks, in order.
RECURSIVE BlocksOf(_)
BlocksOf(chunks) ==
    IF chunks = <<>> THEN <<>>
    ELSE SplitBlankLine(Head(chunks), <<>>) \o BlocksOf(Tail(chunks))

\* The texts of a list, one after the other.
RECURSIVE Concat(_)
Concat(texts) == IF texts = <<>> THEN <<>> ELSE Head(texts) \o Concat(Tail(texts))

\* C9: with every summary shorter than the budget, a block joins the current
\* chunk exactly when the joined length is at most the budget, so the chunks
\* are the greedy ones, and their blocks are the summaries in order.
C9_GreedyChunks ==
    (/\ writer.pc = "done"
     /\ \A i \in 1..Len(writer.summaries) :
            /\ Rendered(writer.summaries[i])
            /\ Len(writer.summaries[i]) < writer.max_chunk_chars)
    => /\ writer.chunks = GreedyChunks(writer.summaries, <<>>, writer.max_chunk_chars)
       /\ BlocksOf(writer.chunks) = writer.summaries

\* C10: one summary longer than the budget becomes ceil(L / B) chunks of at
\* most B characters whose concatenation is the summary.
C10_OversizedSplitExact ==
    (/\ writer.pc = "done"
     /\ Len(writer.summaries) = 1
     /\ Rendered(writer.summaries[1])
     /\ Len(writer.summaries[1]) > writer.max_chunk_chars)
    => LET L == Len(writer.summaries[1])
           B == writer.max_chunk_chars
       IN  /\ Len(writer.chunks) = (L + B - 1) \div B
           /\ \A i \in 1..Len(writer.chunks) : Len(writer.chunks[i]) <= B
           /\ Concat(writer.chunks) = writer.summaries[1]

\* C11: every chunk is at most max_chunk_chars long, whatever the summaries.
C11_ChunksWithinBudget ==
    writer.pc = "done" =>
        \A i \in 1..Len(writer.chunks) :
            Len(writer.chunks[i]) <= writer.max_chunk_chars

\* Two blocks were joined into one chunk, as full as the flush test lets it be.
C11_Witness ==
    /\ writer.pc = "done"
    /\ Len(writer.summaries) = 2
    /\ Len(writer.chunks) = 1
    /\ Len(BlocksOf(writer.chunks)) = 2
    /\ Len(writer.chunks[1]) + 2 = writer.max_chunk_chars

\* The chunks one summary makes on its own: none when blank, its slices when
\* oversized, else its text.
PiecesOf(summary, budget) ==
    LET text == strip(summary)
    IN  IF text = <<>> THEN <<>>
        ELSE IF Len(text) > budget THEN split_large_entry(text, budget)
        ELSE <<text>>

\* The pieces of a list of summaries, in input order.
RECURSIVE PiecesInOrder(_, _)
PiecesInOrder(summaries, budget) ==
    IF summaries = <<>> THEN <<>>
    ELSE PiecesOf(Head(summaries), budget) \o PiecesInOrder(Tail(summaries), budget)

\* C12: read chunk by chunk and block by block, the chunk list is the
\* summaries' text in input order: all of summary i comes before any of
\* summary j when i < j, a pending chunk being flushed ahead of the slices.
C12_ChunkOrderIsInputOrder ==
    writer.pc = "done" =>
        BlocksOf(writer.chunks) = PiecesInOrder(writer.summaries, writer.max_chunk_chars)

\* A normal summary was pending when an oversized one arrived.
C12_Witness ==
    /\ writer.pc = "done"
    /\ Len(writer.summaries) = 2
    /\ Rendered(writer.summaries[1])
    /\ Len(writer.summaries[1]) <= writer.max_chunk_chars
    /\ Len(strip(writer.summaries[2])) > writer.max_chunk_chars
    /\ Len(writer.chunks) >= 3
    /\ writer.chunks[1] = writer.summaries[1]
    /\ Len(writer.chunks[1]) # Len(writer.chunks[2])

\* C30: splitting ends for every integer budget.  The loop of
\* _split_large_entry runs while start is below the length of the text, so
\* it ends, after at most that many passes, when every pass moves start
\* forward.
C30_SplittingTerminates ==
    [][SplitPart => applied'.output.start > applied.output.start]_vars

(***************************************************************************)
(* Properties of generate_story.                                           *)
(***************************************************************************)
\* The backend gave nothing for the chunk handled last: it raised, or its
\* text was empty or blank.
BackendGaveNothing ==
    story.use_backend /\ (story.response.raises \/ strip(story.response.text) = <<>>)

\* C13: a backend call that raises or returns blank text leaves the chunk's
\* own text as its section and in the story so far, the run goes on and
\* never raises, and it ends with one non-empty section per chunk, in chunk
\* order, joined by blank lines.
C13_FallbackKeepsChunk ==
    /\ story.pc # "raised"
    /\ story.pc \in {"chunks", "done"} =>
        /\ Len(story.story_sections) = story.done_chunks
        /\ \A k \in 1..Len(story.story_sections) : story.story_sections[k] # <<>>
        /\ story.story_so_far = join(BlankLine, story.story_sections)
        /\ (story.done_chunks >= 1 /\ BackendGaveNothing) =>
               story.story_sections[story.done_chunks] = story.chunks[story.done_chunks]
    /\ story.pc = "done" =>
        /\ story.done_chunks = Len(story.chunks)
        /\ story.result = join(BlankLine, story.story_sections)

\* The backend failed on the first chunk and answered on the second.
C13_Witness ==
    /\ story.pc = "done"
    /\ story.use_backend
    /\ Len(story.chunks) >= 2
    /\ story.story_sections[1] = story.chunks[1]
    /\ story.story_sections[2] = <<"s">>
    /\ story.result = story.chunks[1] \o BlankLine \o <<"s">>

\* Whether sub occurs in text.
Contains(text, sub) ==
    \E i \in 0..(Len(text) - Len(sub)) : SubSeq(text, i + 1, i + Len(sub)) = sub

\* The trailing parts of a text.
Suffixes(text) == {SubSeq(text, i, Len(text)) : i \in 1..(Len(text) + 1)}

\* C14: the directive of the first chunk carries the start-of-story marker;
\* the directive of every later chunk carries a story-so-far excerpt that is
\* a trailing part of the sections of the chunks before it, joined by blank
\* lines, and is at most story_so_far_limit characters long.
C14_ExcerptIsBoundedTail ==
    (story.pc \in {"chunks", "done"} /\ story.done_chunks >= 1) =>
        LET earlier == SubSeq(story.story_sections, 1, story.done_chunks - 1)
            limit == story.story_so_far_limit
        IN  IF story.done_chunks = 1
            THEN Contains(story.prompt, StartOfStory \o BlankLine \o BeatsHeader)
            ELSE \E excerpt \in Suffixes(join(BlankLine, earlier)) :
                    /\ excerpt # <<>>
                    /\ Len(excerpt) <= limit
                    /\ Contains(story.prompt,
                                BlankLine \o StorySoFarHeader(limit) \o excerpt
                                    \o BlankLine \o BeatsHeader)

(***************************************************************************)
(* Properties of auto_generate.                                            *)
(***************************************************************************)
\* The paths of the leaves of a tree, in traversal order.
RECURSIVE LeafPaths(_, _)
LeafPaths(node, path) ==
    IF node.kind = "map"
    THEN Concat([i \in 1..Len(node.v) |-> LeafPaths(node.v[i][2], Append(path, node.v[i][1]))])
    ELSE <<path>>

\* The prompt configuration that reaches the leaf at a path.
RECURSIVE ConfigAt(_, _)
ConfigAt(prompt_data, path) ==
    IF path = <<>> THEN prompt_data
    ELSE ConfigAt(sub_prompt_of(prompt_data, Head(path)), Tail(path))

\* Whether the call of auto_generate has ended, by returning or by raising.
AutoEnded == auto.pc \in {"done", "raised"}

\* The tree before the i-th leaf assignment.
TreeBefore(i) == IF i = 1 THEN auto.data ELSE auto.assigned[i - 1].root

\* C18: an auto_generate that is given an on_field_filled callback fills the
\* tree, and invokes the callback exactly once after each leaf assignment, in
\* traversal order, with the path of that leaf and the tree holding every
\* assignment made so far.
C18_CallbackAfterEachLeaf ==
    (AutoEnded /\ auto.on_field_filled) =>
        /\ auto.pc = "done"
        /\ Len(auto.callbacks) = Len(LeafPaths(auto.data, <<>>))
        /\ \A i \in 1..Len(auto.callbacks) :
              /\ auto.callbacks[i].path = LeafPaths(auto.data, <<>>)[i]
              /\ auto.callbacks[i].tree = auto.assigned[i].root

\* C19: the backend is invoked once for every leaf, in traversal order, with
\* the directive composed for that leaf and with the leaf's max_tokens, or
\* with the directive alone when its PromptSpec has none; the text it returns
\* is what a string leaf is assigned.
C19_BackendCalledWithCap ==
    auto.pc = "done" =>
        /\ Len(auto.calls) = Len(auto.assigned)
        /\ \A i \in 1..Len(auto.assigned) :
              LET leaf == auto.assigned[i]
                  spec == from_config(ConfigAt(auto.prompt_data, leaf.path))
                  invocation == auto.calls[i]
              IN  /\ invocation.max_tokens = spec.max_tokens
                  /\ invocation.prompt = build_auto_prompt(leaf.path, TreeBefore(i), auto.user_prompt, (IF auto.story_context = PyNone THEN PyMap(<<>>) ELSE auto.story_context), spec.instruction)
                  /\ (leaf.before.kind = "str" /\ ~invocation.raises /\ invocation.text # <<>>)
                        => GetAt(leaf.root, leaf.path) = PyStr(invocation.text)

\* C20: when a backend call fails, auto_generate still returns, every leaf
\* of the tree is visited, a string leaf whose call failed keeps the value it
\* had and a list leaf whose call failed becomes the empty list.
C20_BackendFailureKeepsValue ==
    (AutoEnded /\ ~auto.on_field_filled) =>
        /\ auto.pc = "done"
        /\ [i \in 1..Len(auto.assigned) |-> auto.assigned[i].path] = LeafPaths(auto.data, <<>>)
        /\ \A i \in 1..Len(auto.assigned) :
              LET leaf == auto.assigned[i]
                  after == GetAt(leaf.root, leaf.path)
              IN  leaf.failed =>
                      /\ leaf.before.kind = "str" => after = leaf.before
                      /\ leaf.before.kind = "list" => after = PyList(<<>>)

(***************************************************************************)
(* Properties of the helpers.                                              *)
(***************************************************************************)
\* Whether the helper fn was applied.
Applied(fn) == applied.pc = "done" /\ applied.fn = fn

\* C21: the normalized map has exactly the trimmed non-blank keys of the
\* entries, each with the trimmed value of an entry of that key (a blank
\* value is kept), and an absent or empty map gives the empty map.
C21_MappingNormalized ==
    Applied("_normalize_mapping") =>
        LET pairs == PairsOf(applied.input)
            kept == {i \in 1..Len(pairs) : strip(pairs[i][1]) # <<>>}
        IN  /\ DOMAIN applied.output = {strip(pairs[i][1]) : i \in kept}
            /\ \A k \in DOMAIN applied.output :
                  \E i \in kept : strip(pairs[i][1]) = k /\ applied.output[k] = clean_text(pairs[i][2])

C21_Witness ==
    /\ Applied("_normalize_mapping")
    /\ applied.input = PyMap(<< <<(<<" ", "A", " ">>), PyStr(<<" ">>)>>, <<(<<" ">>), PyStr(<<" ", "a", " ">>)>> >>)
    /\ DOMAIN applied.output = {<<"A">>}
    /\ applied.output[<<"A">>] = <<>>

\* A sequence of texts.
TextsOnly(value) == value.kind = "list" /\ \A i \in 1..Len(value.v) : value.v[i].kind = "str"

\* A payload of the shapes the reflection rules name: a text, a sequence of
\* texts, or a mapping with texts under the note keys and texts or sequences
\* of texts under the plan keys.
ShapedReflection(payload) ==
    \/ payload.kind = "str"
    \/ TextsOnly(payload)
    \/ /\ payload.kind = "map"
       /\ \A i \in 1..Len(payload.v) :
              /\ (\E j \in 1..Len(NoteKeys) : NoteKeys[j] = payload.v[i][1]) => payload.v[i][2].kind = "str"
              /\ (\E j \in 1..Len(PlanKeys) : PlanKeys[j] = payload.v[i][1]) =>
                     payload.v[i][2].kind = "str" \/ TextsOnly(payload.v[i][2])

\* The non-empty values under the note keys, in the order of the keys.
NotesFound(payload) ==
    LET present == SelectSeq(NoteKeys, LAMBDA k : k \in Keys(payload) /\ MapGet(payload, k).v # <<>>)
    IN  [i \in 1..Len(present) |-> MapGet(payload, present[i]).v]

\* The entries under the plan keys, in the order of the keys; a text counts
\* as a sequence of one.
EntriesFound(payload) ==
    LET present == SelectSeq(PlanKeys, LAMBDA k : k \in Keys(payload))
        under(k) == LET value == MapGet(payload, k)
                    IN  IF value.kind = "str" THEN <<value.v>>
                        ELSE [i \in 1..Len(value.v) |-> value.v[i].v]
    IN  Concat([i \in 1..Len(present) |-> under(present[i])])

\* C23: for a mapping payload the note text is the non-empty values under
\* notes, thoughts, reflection in that order joined with a blank line, and
\* the candidate actions are the entries under candidate_actions, plans,
\* next_actions, next_steps in that order, a text counting as one entry; a
\* bare text y gives (trimmed y, []) and a bare sequence gives ("", that
\* sequence).
C23_ReflectionShapes ==
    (Applied("_normalize_reflection") /\ ShapedReflection(applied.input)) =>
        applied.output =
            CASE applied.input.kind = "map" ->
                     <<join(BlankLine, NotesFound(applied.input)), EntriesFound(applied.input)>>
              [] applied.input.kind = "str" -> <<strip(applied.input.v), <<>>>>
              [] applied.input.kind = "list" ->
                     <<<<>>, [i \in 1..Len(applied.input.v) |-> applied.input.v[i].v]>>

\* C24: a payload that is not null, a mapping, a sequence or a text, such as
\* a number or a boolean, normalizes to ("", []).
C24_InvalidShapeIsEmpty ==
    (Applied("_normalize_reflection") /\ applied.input.kind \in {"int", "bool"}) =>
        applied.output = <<<<>>, <<>>>>

\* The fragments of a text: its lines split on commas.
Fragments(text) ==
    Concat([i \in 1..Len(split(text, "\n")) |-> split(split(text, "\n")[i], ",")])

\* A fragment without its blanks and bullet markers.
Bare(fragment) == strip(lstrip_bullets(strip(fragment)))

\* C26: parsing a list response never raises; a response that is a JSON array
\* gives its non-blank items as trimmed strings, any other response gives
\* its fragments (lines split on commas) without bullet markers and blanks,
\* and the result is empty only if every fragment is blank.
C26_ListParsingNeverRaises ==
    Applied("_parse_list_response") =>
        LET response == strip(applied.input.v)
            parsed == json_loads(response)
        IN  /\ ~applied.output.raises
            /\ IF parsed.status = "ok" /\ parsed.value.kind = "list"
               THEN applied.output.items =
                        non_empty([i \in 1..Len(parsed.value.v) |-> strip(py_str(parsed.value.v[i]))])
               ELSE /\ applied.output.items =
                           non_empty([i \in 1..Len(Fragments(response)) |-> Bare(Fragments(response)[i])])
                    /\ applied.output.items = <<>> =>
                           \A i \in 1..Len(Fragments(response)) : Bare(Fragments(response)[i]) = <<>>

\* C27: from_config returns for every configuration value, without
\* raising; the instruction it returns is a trimmed string, empty when the
\* configuration is neither a string nor an object, and its max_tokens is
\* absent or an integer above 0.
C27_FromConfigTotal ==
    Applied("from_config") =>
        /\ ~applied.output.raises
        /\ applied.output.instruction = strip(applied.output.instruction)
        /\ applied.input.kind \notin {"str", "map"} => applied.output.instruction = <<>>
        /\ \/ applied.output.max_tokens = PyNone
           \/ /\ applied.output.max_tokens.kind = "int"
              /\ Head(applied.output.max_tokens.v) \notin {"-", "0"}

====
